---- MODULE Spec2Model ----
(***************************************************************************)
(* The Aurum.Gold ledger (class Blockchain of backend/core/blockchain.ts)  *)
(* as a state machine: the chain, the pending pool, the account map and    *)
(* the validator map, driven by the public operations addTransaction,      *)
(* createBlock, addBlock and registerValidator.                            *)
(*                                                                         *)
(* SHA-256 is modelled as a collision-free constructor: the digest of x is *)
(* the tagged value <<"sha256", x>>, so two digests are equal exactly when *)
(* their pre-images are.  A signature is modelled by the name of the key   *)
(* that produced it ("" is the absent signature).                          *)
(***************************************************************************)
EXTENDS Integers, Sequences, FiniteSets, TLC

\* ---------------------------------------------------------------- chain parameters
blockTime == 15000
blockReward == 5
minStake == 1000
initialSupply == 10000000
\* chainParams.genesisTimestamp is 1609459200000; times are counted in
\* milliseconds from it, so that they fit the integers of the model checker
genesisTimestamp == 0
\* selectTransactionsForBlock keeps the first 100 transactions
MaxBlockTransactions == 100
\* the validator timer period, the step of the clock
TickMs == 5000

\* ---------------------------------------------------------------- bounds
\* blocks are appended while the tip is below this height
MaxHeight == 3
\* addTransaction is called while the pool holds fewer entries than this
MaxPool == 2
\* registerValidator is called directly, for an address without a record,
\* while the validator map holds fewer records than this
MaxRegistered == 1
\* where only rewards, stakes and unstakes are submitted, blocks are appended
\* while the tip is below this height
MaxStakingHeight == 4
\* where a branch competes, the two nodes append blocks together, and the
\* first node its own, while the tip is below this height
MaxForkHeight == 2
\* block assembly is followed from pools of at most this many transactions
MaxAssemblyPool == 3
\* sessions are created while the node has had fewer than this
MaxSockets == 3
\* the sessions and the tip index up to which gossip is followed
MaxGossipSockets == 2
MaxGossipHeight == 1
\* the second node appends blocks of its own up to this height, and the
\* first node has at most this many sessions, where synchronization is followed
MaxSyncHeight == 2
MaxSyncSockets == 1
\* where the validator timer is followed: the tip index up to which blocks
\* are appended, and the number of ticks
MaxValidatorHeight == 4
MaxValidatorTicks == 2
\* where stop is followed: the tip index up to which blocks are received,
\* the sessions, and the snapshot writes after which stop is not called again
MaxStopHeight == 2
MaxStopSockets == 1
MaxStopWrites == 3
\* where restarts are followed, blocks are received while the tip is below this
MaxRestartHeight == 2
\* calculateMerkleRoot is applied to the lists of at most this many transactions
MaxMerkleLen == 5

\* ---------------------------------------------------------------- input sets
Addr == {"a1", "a2"}
\* the addresses that submit signed transactions
Senders == {"a1"}
NETWORK == "NETWORK"
GENESIS_VALIDATOR == "AURUM_GENESIS"
REGULAR == "regular"
REWARD == "reward"
STAKE == "stake"
UNSTAKE == "unstake"
\* the amount of a transfer, a stake or an unstake
Amounts == {1000}
Fees == {1}
\* amounts of Reward transactions handed to addTransaction or carried by a peer block
RewardAmounts == {2001}
Nonces == {0, 1}
\* Math.floor(Math.random() * 1000000)
HeaderNonces == {0}

\* ---------------------------------------------------------------- hashing
\* "0".repeat(64)
ZeroHash == <<"0">>

Sha256(x) == <<"sha256", x>>

\* Blockchain.calculateBlockHash: the digest of JSON.stringify(block.header)
calculateBlockHash(block) == Sha256(block.header)

\* calculateTransactionHash: the digest of the transaction without its signature
calculateTransactionHash(tx) ==
  Sha256([f \in (DOMAIN tx) \ {"signature"} |-> tx[f]])

\* hashPair: the digest of left + right (two fixed-width hex strings)
hashPair(left, right) == Sha256(<<left, right>>)

\* one level of buildMerkleTree: the parents of the leaves from position i on
RECURSIVE MerkleParents(_, _)
MerkleParents(leaves, i) ==
  IF i > Len(leaves) THEN <<>>
  ELSE LET left == leaves[i]
           right == IF i + 1 <= Len(leaves) THEN leaves[i + 1] ELSE left
       IN <<hashPair(left, right)>> \o MerkleParents(leaves, i + 2)

\* buildMerkleTree with a slip: the last node of an odd level is paired with
\* the first node of the level
RECURSIVE buildMerkleTree_OddWithFirst(_)
buildMerkleTree_OddWithFirst(leaves) ==
  IF Len(leaves) = 0 THEN ZeroHash
  ELSE IF Len(leaves) = 1 THEN leaves[1]
  ELSE buildMerkleTree_OddWithFirst(
         [j \in 1..((Len(leaves) + 1) \div 2) |->
            hashPair(leaves[2 * j - 1],
                     IF 2 * j <= Len(leaves) THEN leaves[2 * j] ELSE leaves[1])])

RECURSIVE buildMerkleTree(_)
buildMerkleTree(leaves) ==
  IF Len(leaves) = 0 THEN ZeroHash
  ELSE IF Len(leaves) = 1 THEN leaves[1]
  ELSE buildMerkleTree(MerkleParents(leaves, 1))

calculateMerkleRoot(transactions) ==
  IF Len(transactions) = 0 THEN ZeroHash
  ELSE buildMerkleTree([i \in 1..Len(transactions) |->
                          calculateTransactionHash(transactions[i])])

\* ---------------------------------------------------------------- state
VARIABLES
  chain,                \* Blockchain.chain: the blocks, genesis first
  pendingTransactions,  \* Blockchain.pendingTransactions: the pool, in arrival order
  validators,           \* Blockchain.validators: the records in insertion order
  accounts,             \* Blockchain.accounts: address -> account, present keys only
  now,                  \* Date.now()
  outcome,              \* what the last call returned and emitted, where calls are observed
  argument,             \* the argument of that call, where a function is applied to drawn inputs
  peer,                 \* the ledger of a second node, where two nodes are followed
  inFlight,             \* the block on its way to the second node, if any
  peers,                \* P2PService.peers: the entries in insertion order
  sockets,              \* the sessions in the order they were created: the state of each
  sent,                 \* the messages the last handler put on its sockets, in order
  isRunning,            \* NodeService.isRunning
  isSyncing,            \* NodeService.isSyncing
  nodeValidatorAddress, \* NodeService.validatorAddress, "" for null
  validatorInterval,    \* NodeService.validatorInterval: whether the timer is set
  tasks,                \* where the asynchronous calls stop() and syncWithNetwork() wait,
                        \* and the private key the timer callback holds
  stateFile,            \* the snapshot file of StorageService
  writes,               \* the fs.writeFile calls made so far and how far each has come
  wallets               \* the wallet files of WalletService: address -> file, present keys only

\* the ledger of the node and its clock
ledgerVars == <<chain, pendingTransactions, validators, accounts, now>>

\* what only the specifications that observe calls change
observedVars == <<outcome, argument>>

peerVars == <<peer, inFlight>>

\* the peer-to-peer service
p2pVars == <<peers, sockets, sent>>

\* the node service
nodeVars == <<isRunning, isSyncing, nodeValidatorAddress, validatorInterval, tasks>>

\* the storage service and the wallet service: the data directory
storageVars == <<stateFile, writes, wallets>>

serviceVars == <<p2pVars, nodeVars, storageVars>>

otherVars == <<observedVars, peerVars, serviceVars>>

vars == <<ledgerVars, otherVars>>

\* no call has been observed
NoCall == [call |-> "none", returned |-> "none", emitted |-> "none"]

\* initializeGenesisBlock: the header is hashed with a zero merkle root and the
\* digest is then stored in header.merkleRoot
GenesisBlock ==
  LET header == [index |-> 0, previousHash |-> ZeroHash, timestamp |-> genesisTimestamp,
                 merkleRoot |-> ZeroHash, validator |-> GENESIS_VALIDATOR, nonce |-> 0]
      blockHash == Sha256(header)
  IN [header |-> [header EXCEPT !.merkleRoot = blockHash],
      transactions |-> <<>>,
      signature |-> "GENESIS_SIGNATURE"]

\* the ledger of a node after construction
NewLedger ==
  [chain |-> <<GenesisBlock>>, pendingTransactions |-> <<>>,
   validators |-> <<>>, accounts |-> <<>>]

\* no snapshot has been written
AbsentFile == [exists |-> FALSE, content |-> <<>>]

\* no asynchronous call is waiting
NoTasks == [stop |-> <<>>, sync |-> "idle", timer |-> ""]

\* the services of a node after construction
NewServices ==
  /\ peers = <<>>
  /\ sockets = <<>>
  /\ sent = <<>>
  /\ isRunning = FALSE
  /\ isSyncing = FALSE
  /\ nodeValidatorAddress = ""
  /\ validatorInterval = FALSE
  /\ tasks = NoTasks
  /\ stateFile = AbsentFile
  /\ writes = <<>>
  /\ wallets = <<>>

Init ==
  /\ chain = <<GenesisBlock>>
  /\ pendingTransactions = <<>>
  /\ validators = <<>>
  /\ accounts = <<>>
  /\ now = genesisTimestamp
  /\ outcome = NoCall
  /\ argument = <<>>
  /\ peer = NewLedger
  /\ inFlight = <<>>
  /\ NewServices

getLatestBlock == chain[Len(chain)]

\* ---------------------------------------------------------------- maps
HasValidator(vals, address) == \E i \in 1..Len(vals) : vals[i].address = address

ValidatorIndex(vals, address) == CHOOSE i \in 1..Len(vals) : vals[i].address = address

getValidator(vals, address) == vals[ValidatorIndex(vals, address)]

HasAccount(accs, address) == address \in DOMAIN accs

\* getOrCreateAccount: the map with an empty account added when the address is new
getOrCreateAccount(accs, address) ==
  IF address \in DOMAIN accs THEN accs
  ELSE [a \in (DOMAIN accs) \cup {address} |->
          IF a = address
          THEN [address |-> address, balance |-> 0, nonce |-> 0, stake |-> 0]
          ELSE accs[a]]


\* ---------------------------------------------------------------- validators
\* Blockchain.registerValidator on the validator list; tipIndex is
\* getLatestBlock().header.index and t is Date.now()
\* registerValidator with a slip: an existing record's stake is set, not raised
registerValidator_SetsStake(vals, address, stake, tipIndex, t) ==
  IF stake < minStake THEN vals
  ELSE IF HasValidator(vals, address)
  THEN LET i == ValidatorIndex(vals, address)
       IN [vals EXCEPT ![i].stake = stake, ![i].isActive = TRUE]
  ELSE Append(vals, [address |-> address,
                     stake |-> stake,
                     isActive |-> TRUE,
                     lastBlockValidated |-> tipIndex,
                     totalBlocksValidated |-> 0,
                     rewardAddress |-> address,
                     registeredAt |-> t])

registerValidator(vals, address, stake, tipIndex, t) ==
  IF stake < minStake THEN vals
  ELSE IF HasValidator(vals, address)
  THEN LET i == ValidatorIndex(vals, address)
       IN [vals EXCEPT ![i].stake = @ + stake, ![i].isActive = TRUE]
  ELSE Append(vals, [address |-> address,
                     stake |-> stake,
                     isActive |-> TRUE,
                     lastBlockValidated |-> tipIndex,
                     totalBlocksValidated |-> 0,
                     rewardAddress |-> address,
                     registeredAt |-> t])

\* ---------------------------------------------------------------- transaction processing
\* A ledger is the pair the processing functions read and write.
Ledger(accs, vals) == [accounts |-> accs, validators |-> vals]

\* processRegularTransaction with a slip: the recipient receives the fee too
processRegularTransaction_FeeToRecipient(led, tx) ==
  LET a1 == getOrCreateAccount(getOrCreateAccount(led.accounts, tx.from), tx.to)
      a2 == [a1 EXCEPT ![tx.from].balance = @ - (tx.amount + tx.fee)]
      a3 == [a2 EXCEPT ![tx.to].balance = @ + (tx.amount + tx.fee)]
      a4 == [a3 EXCEPT ![tx.from].nonce = @ + 1]
  IN [led EXCEPT !.accounts = a4]

processRegularTransaction(led, tx) ==
  LET a1 == getOrCreateAccount(getOrCreateAccount(led.accounts, tx.from), tx.to)
      a2 == [a1 EXCEPT ![tx.from].balance = @ - (tx.amount + tx.fee)]
      a3 == [a2 EXCEPT ![tx.to].balance = @ + tx.amount]
      a4 == [a3 EXCEPT ![tx.from].nonce = @ + 1]
  IN [led EXCEPT !.accounts = a4]

processRewardTransaction(led, tx) ==
  LET a1 == getOrCreateAccount(led.accounts, tx.to)
  IN [led EXCEPT !.accounts = [a1 EXCEPT ![tx.to].balance = @ + tx.amount]]

processStakeTransaction(led, tx, tipIndex, t) ==
  LET a1 == getOrCreateAccount(led.accounts, tx.from)
      a2 == [a1 EXCEPT ![tx.from].balance = @ - (tx.amount + tx.fee),
                       ![tx.from].stake = @ + tx.amount,
                       ![tx.from].nonce = @ + 1]
  IN [accounts |-> a2,
      validators |-> registerValidator(led.validators, tx.from, tx.amount, tipIndex, t)]

\* processUnstakeTransaction with a slip: the validator is never deactivated
processUnstakeTransaction_StaysActive(led, tx) ==
  LET a1 == getOrCreateAccount(led.accounts, tx.from)
      a2 == [a1 EXCEPT ![tx.from].balance = (@ - tx.fee) + tx.amount,
                       ![tx.from].stake = @ - tx.amount,
                       ![tx.from].nonce = @ + 1]
      vals == led.validators
  IN [accounts |-> a2,
      validators |->
        IF HasValidator(vals, tx.from)
        THEN LET i == ValidatorIndex(vals, tx.from)
             IN [vals EXCEPT ![i].stake = @ - tx.amount]
        ELSE vals]

processUnstakeTransaction(led, tx) ==
  LET a1 == getOrCreateAccount(led.accounts, tx.from)
      a2 == [a1 EXCEPT ![tx.from].balance = (@ - tx.fee) + tx.amount,
                       ![tx.from].stake = @ - tx.amount,
                       ![tx.from].nonce = @ + 1]
      vals == led.validators
  IN [accounts |-> a2,
      validators |->
        IF HasValidator(vals, tx.from)
        THEN LET i == ValidatorIndex(vals, tx.from)
                 remaining == vals[i].stake - tx.amount
             IN [vals EXCEPT ![i].stake = remaining,
                             ![i].isActive = IF remaining < minStake THEN FALSE ELSE @]
        ELSE vals]

processTransaction(led, tx, tipIndex, t) ==
  CASE tx.type = REGULAR -> processRegularTransaction(led, tx)
    [] tx.type = REWARD -> processRewardTransaction(led, tx)
    [] tx.type = STAKE -> processStakeTransaction(led, tx, tipIndex, t)
    [] tx.type = UNSTAKE -> processUnstakeTransaction(led, tx)
    [] OTHER -> led

\* the loop of processBlockTransactions: the ledger after the first k transactions
RECURSIVE LedgerAfter(_, _, _, _, _)
LedgerAfter(led, txs, k, tipIndex, t) ==
  IF k = 0 THEN led
  ELSE processTransaction(LedgerAfter(led, txs, k - 1, tipIndex, t), txs[k], tipIndex, t)

\* the filter of processBlockTransactions: the pool without the ids of the block
RECURSIVE FilterPool(_, _)
FilterPool(pool, txIds) ==
  IF pool = <<>> THEN <<>>
  ELSE IF Head(pool).id \in txIds THEN FilterPool(Tail(pool), txIds)
  ELSE <<Head(pool)>> \o FilterPool(Tail(pool), txIds)

TxIds(txs) == {txs[i].id : i \in 1..Len(txs)}

\* ---------------------------------------------------------------- validation
\* verifyTransactionSignature: only the presence of a signature is checked
verifyTransactionSignature(tx) ==
  IF tx.type = REWARD /\ tx.from = NETWORK THEN TRUE
  ELSE tx.signature # ""

\* isValidTransaction with a slip: the nonce is not compared
isValidTransaction_NoNonceCheck(accs, tx) ==
  IF tx.type = REWARD /\ tx.from = NETWORK THEN TRUE
  ELSE IF ~verifyTransactionSignature(tx) THEN FALSE
  ELSE IF ~HasAccount(accs, tx.from) THEN FALSE
  ELSE LET sender == accs[tx.from]
       IN /\ tx.type = REGULAR => sender.balance >= tx.amount + tx.fee
          /\ tx.type = STAKE => /\ sender.balance >= tx.amount + tx.fee
                                /\ tx.amount >= minStake
          /\ tx.type = UNSTAKE => /\ sender.stake >= tx.amount
                                  /\ sender.balance >= tx.fee

\* isValidTransaction against the account map accs
isValidTransaction(accs, tx) ==
  IF tx.type = REWARD /\ tx.from = NETWORK THEN TRUE
  ELSE IF ~verifyTransactionSignature(tx) THEN FALSE
  ELSE IF ~HasAccount(accs, tx.from) THEN FALSE
  ELSE LET sender == accs[tx.from]
       IN /\ tx.type = REGULAR => sender.balance >= tx.amount + tx.fee
          /\ tx.type = STAKE => /\ sender.balance >= tx.amount + tx.fee
                                /\ tx.amount >= minStake
          /\ tx.type = UNSTAKE => /\ sender.stake >= tx.amount
                                  /\ sender.balance >= tx.fee
          /\ tx.nonce = sender.nonce

\* verifyBlockSignature: the proposer must be in the validator map and the
\* signature must be present
verifyBlockSignature(vals, block) ==
  IF block.header.index = 0 THEN TRUE
  ELSE IF ~HasValidator(vals, block.header.validator) THEN FALSE
  ELSE block.signature # ""

\* isValidBlock with a slip: the previous hash is not compared
isValidBlock_NoParentCheck(tip, vals, accs, block) ==
  /\ block.header.index = tip.header.index + 1
  /\ block.header.merkleRoot = calculateMerkleRoot(block.transactions)
  /\ verifyBlockSignature(vals, block)
  /\ \A i \in 1..Len(block.transactions) : isValidTransaction(accs, block.transactions[i])

\* isValidBlock against the tip, the validator map and the account map; every
\* transaction is checked against the same account map accs
isValidBlock(tip, vals, accs, block) ==
  /\ block.header.index = tip.header.index + 1
  /\ block.header.previousHash = calculateBlockHash(tip)
  /\ block.header.merkleRoot = calculateMerkleRoot(block.transactions)
  /\ verifyBlockSignature(vals, block)
  /\ \A i \in 1..Len(block.transactions) : isValidTransaction(accs, block.transactions[i])


\* ---------------------------------------------------------------- block assembly
\* Array.prototype.sort with (a, b) => b.fee - a.fee is stable: tx goes behind
\* every entry whose fee is not lower
RECURSIVE InsertByFee(_, _)
InsertByFee(sorted, tx) ==
  IF sorted = <<>> THEN <<tx>>
  ELSE IF Head(sorted).fee < tx.fee THEN <<tx>> \o sorted
  ELSE <<Head(sorted)>> \o InsertByFee(Tail(sorted), tx)

RECURSIVE SortByFee(_)
SortByFee(txs) ==
  IF txs = <<>> THEN <<>>
  ELSE InsertByFee(SortByFee(SubSeq(txs, 1, Len(txs) - 1)), txs[Len(txs)])

selectTransactionsForBlock(pool) ==
  LET sortedTransactions == SortByFee(pool)
  IN SubSeq(sortedTransactions, 1,
            IF Len(sortedTransactions) < MaxBlockTransactions
            THEN Len(sortedTransactions) ELSE MaxBlockTransactions)

\* addValidatorReward: the transaction pushed to the pool after a produced block
RewardTransaction(validatorAddress, t) ==
  [id |-> <<"reward", t, validatorAddress>>,
   type |-> REWARD,
   from |-> NETWORK,
   to |-> validatorAddress,
   amount |-> blockReward,
   fee |-> 0,
   timestamp |-> t,
   signature |-> "NETWORK_REWARD",
   nonce |-> 0]

\* ---------------------------------------------------------------- inputs
\* WalletService.generateTransactionId: the digest of from, to, amount, fee and the time
generateTransactionId(from, to, amount, fee, t) == Sha256(<<from, to, amount, fee, t>>)

\* a transaction as WalletService.createTransaction builds it, apart from the
\* nonce, which the caller of addTransaction may set, and the signature
Transaction(type, from, to, amount, fee, t, nonce, signature) ==
  [id |-> generateTransactionId(from, to, amount, fee, t),
   type |-> type, from |-> from, to |-> to, amount |-> amount, fee |-> fee,
   timestamp |-> t, signature |-> signature, nonce |-> nonce]

\* the transactions the wallet of a sender submits at time t, signed with the
\* sender's key; stake and unstake transactions go to the sender itself
WalletTransactions(t) ==
  {Transaction(REGULAR, from, to, amount, fee, t, nonce, from) :
     from \in Senders, to \in Addr, amount \in Amounts, fee \in Fees, nonce \in Nonces}
  \cup
  {Transaction(type, from, from, amount, fee, t, nonce, from) :
     type \in {STAKE, UNSTAKE}, from \in Senders, amount \in Amounts, fee \in Fees,
     nonce \in Nonces}

\* what a peer may send besides: a transfer out of a sender's account that
\* carries no signature or the signature of another key, an unstake
\* of a negative amount, and a Reward transaction of its own making
PeerTransactions(t) ==
  {Transaction(REGULAR, from, to, amount, fee, t, nonce, signature) :
     from \in Senders, to \in Addr \ Senders, amount \in Amounts, fee \in Fees,
     nonce \in Nonces, signature \in {""} \cup (Addr \ Senders)}
  \cup
  {Transaction(UNSTAKE, from, from, 0 - amount, fee, t, nonce, from) :
     from \in Senders, amount \in Amounts, fee \in Fees, nonce \in Nonces}
  \cup
  {[RewardTransaction(to, t) EXCEPT !.amount = amount] :
     to \in Senders, amount \in RewardAmounts}

TransactionInputs(t) == WalletTransactions(t) \cup PeerTransactions(t)

\* ---------------------------------------------------------------- operations
\* Blockchain.addTransaction; a rejected transaction changes nothing
AddTransaction(tx) ==
  /\ isValidTransaction(accounts, tx)
  /\ pendingTransactions' = Append(pendingTransactions, tx)
  /\ UNCHANGED <<chain, validators, accounts, now>>

\* the part of addBlock behind the validity check: the validator map after
\* the proposer's counters are updated
UpdateProposer(vals, block) ==
  IF HasValidator(vals, block.header.validator)
  THEN LET i == ValidatorIndex(vals, block.header.validator)
       IN [vals EXCEPT ![i].lastBlockValidated = block.header.index,
                       ![i].totalBlocksValidated = @ + 1]
  ELSE vals

\* the ledger after processBlockTransactions(block)
ProcessedLedger(block, t) ==
  LedgerAfter(Ledger(accounts, validators), block.transactions,
              Len(block.transactions), block.header.index, t)

\* Blockchain.addBlock for a block that passes isValidBlock; pool is what
\* follows the filtered pool (empty, or the reward createBlock pushes)
AppendBlock(block, pushed, t) ==
  /\ isValidBlock(getLatestBlock, validators, accounts, block)
  /\ chain' = Append(chain, block)
  /\ pendingTransactions' =
       FilterPool(pendingTransactions, TxIds(block.transactions)) \o pushed
  /\ accounts' = ProcessedLedger(block, t).accounts
  /\ validators' = UpdateProposer(ProcessedLedger(block, t).validators, block)
  /\ now' = t

\* Blockchain.addBlock, called with a block received from a peer
AddBlock(block) == AppendBlock(block, <<>>, now)

\* Blockchain.createBlock at time t: the block it builds, and the call; it
\* throws, changing nothing, when addBlock rejects
NewBlock(validatorAddress, signature, nonce, t) ==
  LET previousBlock == getLatestBlock
      selectedTransactions == selectTransactionsForBlock(pendingTransactions)
      header == [index |-> previousBlock.header.index + 1,
                 previousHash |-> calculateBlockHash(previousBlock),
                 timestamp |-> t,
                 merkleRoot |-> calculateMerkleRoot(selectedTransactions),
                 validator |-> validatorAddress,
                 nonce |-> nonce]
  IN [header |-> header,
      transactions |-> selectedTransactions,
      signature |-> signature]

CreateBlock(validatorAddress, signature, nonce, t) ==
  AppendBlock(NewBlock(validatorAddress, signature, nonce, t),
              <<RewardTransaction(validatorAddress, t)>>, t)

\* Blockchain.registerValidator called by an owner of the ledger
RegisterValidator(address, stake) ==
  /\ stake >= minStake
  /\ ~HasValidator(validators, address)
  /\ Len(validators) < MaxRegistered
  /\ validators' = registerValidator(validators, address, stake,
                                     getLatestBlock.header.index, now)
  /\ UNCHANGED <<chain, pendingTransactions, accounts, now>>

\* createBlock is called from the validator timer: Date.now() is then one
\* timer period after the last reading
NextTick == now + TickMs

\* a block as a peer builds it on the tip it knows
PeerBlock(validator, signature, txs) ==
  [header |-> [index |-> getLatestBlock.header.index + 1,
               previousHash |-> calculateBlockHash(getLatestBlock),
               timestamp |-> now,
               merkleRoot |-> calculateMerkleRoot(txs),
               validator |-> validator,
               nonce |-> 0],
   transactions |-> txs,
   signature |-> signature]

\* the lists a peer that holds the same pool may put in its block: the
\* transactions createBlock would select, or the first of them
PeerLists ==
  LET selected == selectTransactionsForBlock(pendingTransactions)
  IN {SubSeq(selected, 1, k) : k \in 0..Len(selected)}

\* the same block with one header field changed on the way
Tampered(block) ==
  {[block EXCEPT !.header.index = @ + 1],
   [block EXCEPT !.header.previousHash = ZeroHash],
   [block EXCEPT !.header.merkleRoot = Sha256(<<>>)]}

\* the blocks a peer may send: built on the tip, signed by the proposer's
\* key or not at all, and possibly tampered with
PeerBlocks ==
  LET built == {PeerBlock(validator, IF signed THEN validator ELSE "", txs) :
                  validator \in Addr, signed \in BOOLEAN, txs \in PeerLists}
  IN built \cup UNION {Tampered(block) : block \in built}

\* the bounds of the exploration
PoolBelowBound == Len(pendingTransactions) < MaxPool

TipBelowBound == getLatestBlock.header.index < MaxHeight

Next ==
  \/ /\ PoolBelowBound
     /\ \E tx \in TransactionInputs(now) : AddTransaction(tx)
     /\ UNCHANGED otherVars
  \/ /\ TipBelowBound
     /\ \E block \in PeerBlocks : AddBlock(block)
     /\ UNCHANGED otherVars
  \/ /\ TipBelowBound
     /\ \E validatorAddress \in Addr, nonce \in HeaderNonces :
          \E signature \in {"", validatorAddress} :
            CreateBlock(validatorAddress, signature, nonce, NextTick)
     /\ UNCHANGED otherVars
  \/ /\ \E address \in Addr, stake \in Amounts : RegisterValidator(address, stake)
     /\ UNCHANGED otherVars

Spec == Init /\ [][Next]_vars

\* ---------------------------------------------------------------- observed calls
\* The same operations with every call a step: a call that rejects leaves its
\* result behind like one that accepts.
Returned(call, returned, emitted) ==
  [call |-> call, returned |-> returned, emitted |-> emitted]

\* addTransaction with a slip: a rejected transaction is pushed all the same
CallAddTransaction_KeepsRejected(tx) ==
  /\ pendingTransactions' = Append(pendingTransactions, tx)
  /\ UNCHANGED <<chain, validators, accounts, now>>
  /\ outcome' = IF isValidTransaction(accounts, tx)
                THEN Returned("addTransaction", "true", "transactionAdded")
                ELSE Returned("addTransaction", "false", "none")

CallAddTransaction(tx) ==
  IF isValidTransaction(accounts, tx)
  THEN /\ AddTransaction(tx)
       /\ outcome' = Returned("addTransaction", "true", "transactionAdded")
  ELSE /\ UNCHANGED ledgerVars
       /\ outcome' = Returned("addTransaction", "false", "none")

CallAddBlock(block) ==
  IF isValidBlock(getLatestBlock, validators, accounts, block)
  THEN /\ AddBlock(block)
       /\ outcome' = Returned("addBlock", "true", "blockAdded")
  ELSE /\ UNCHANGED ledgerVars
       /\ outcome' = Returned("addBlock", "false", "none")

\* createBlock returns the block, or throws when addBlock returned false
CallCreateBlock(validatorAddress, signature, nonce, t) ==
  IF isValidBlock(getLatestBlock, validators, accounts,
                  NewBlock(validatorAddress, signature, nonce, t))
  THEN /\ CreateBlock(validatorAddress, signature, nonce, t)
       /\ outcome' = Returned("createBlock", "block", "blockAdded")
  ELSE /\ UNCHANGED ledgerVars
       /\ outcome' = Returned("createBlock", "throws", "none")

CallRegisterValidator(address, stake) ==
  /\ RegisterValidator(address, stake)
  /\ outcome' = Returned("registerValidator", "true", "validatorRegistered")

NextCalls ==
  \/ /\ PoolBelowBound
     /\ \E tx \in TransactionInputs(now) : CallAddTransaction(tx)
     /\ UNCHANGED <<argument, peerVars, serviceVars>>
  \/ /\ TipBelowBound
     /\ \E block \in PeerBlocks : CallAddBlock(block)
     /\ UNCHANGED <<argument, peerVars, serviceVars>>
  \/ /\ TipBelowBound
     /\ \E validatorAddress \in Addr, nonce \in HeaderNonces :
          \E signature \in {"", validatorAddress} :
            CallCreateBlock(validatorAddress, signature, nonce, NextTick)
     /\ UNCHANGED <<argument, peerVars, serviceVars>>
  \/ /\ \E address \in Addr, stake \in Amounts : CallRegisterValidator(address, stake)
     /\ UNCHANGED <<argument, peerVars, serviceVars>>

SpecCalls == Init /\ [][NextCalls]_vars

\* ---------------------------------------------------------------- proposer election
\* Math.random() is one of the fractions draw / RandomScale, draw in RandomDraws
RandomScale == 4

RandomDraws == {0, 3}

\* Array.from(this.validators.values()).filter((validator) => validator.isActive)
ActiveValidators(vals) == SelectSeq(vals, LAMBDA validator : validator.isActive)

\* activeValidators.reduce((sum, validator) => sum + validator.stake, 0)
RECURSIVE ReduceStake(_, _)
ReduceStake(active, n) ==
  IF n = 0 THEN 0 ELSE ReduceStake(active, n - 1) + active[n].stake

\* the loop of selectValidator from position i on; randomPoint is
\* draw * totalStake / RandomScale, and the fallback is the first validator
RECURSIVE SelectLoop(_, _, _, _, _)
SelectLoop(active, i, cumulativeStake, draw, totalStake) ==
  IF i > Len(active) THEN active[1].address
  ELSE LET reached == cumulativeStake + active[i].stake
       IN IF reached * RandomScale >= draw * totalStake
          THEN active[i].address
          ELSE SelectLoop(active, i + 1, reached, draw, totalStake)

\* selectValidator with a slip: the inactive validators are drawn from too
selectValidator_IgnoresActivity(vals, draw) ==
  IF Len(vals) = 0 THEN "throws"
  ELSE SelectLoop(vals, 1, 0, draw, ReduceStake(vals, Len(vals)))

\* Blockchain.selectValidator: the address, or "throws"
selectValidator(vals, draw) ==
  LET activeValidators == ActiveValidators(vals)
  IN IF Len(activeValidators) = 0 THEN "throws"
     ELSE SelectLoop(activeValidators, 1, 0, draw,
                     ReduceStake(activeValidators, Len(activeValidators)))

CallSelectValidator(draw) ==
  /\ outcome' = Returned("selectValidator", selectValidator(validators, draw), "none")
  /\ argument' = draw
  /\ UNCHANGED <<ledgerVars, peerVars, serviceVars>>

\* a step of the ledger: the result of an earlier election is of no use
Forgotten ==
  /\ outcome' = NoCall
  /\ argument' = <<>>
  /\ UNCHANGED <<peerVars, serviceVars>>

NextElection ==
  \/ /\ PoolBelowBound
     /\ \E tx \in TransactionInputs(now) : AddTransaction(tx)
     /\ Forgotten
  \/ /\ TipBelowBound
     /\ \E block \in PeerBlocks : AddBlock(block)
     /\ Forgotten
  \/ /\ TipBelowBound
     /\ \E validatorAddress \in Addr, nonce \in HeaderNonces :
          \E signature \in {"", validatorAddress} :
            CreateBlock(validatorAddress, signature, nonce, NextTick)
     /\ Forgotten
  \/ /\ \E address \in Addr, stake \in Amounts : RegisterValidator(address, stake)
     /\ Forgotten
  \/ \E draw \in RandomDraws : CallSelectValidator(draw)

SpecElection == Init /\ [][NextElection]_vars

\* ---------------------------------------------------------------- staking on a longer chain
\* the submitted transactions that fund an account, stake and unstake
StakingInputs(t) ==
  {tx \in TransactionInputs(t) : tx.type \in {REWARD, STAKE, UNSTAKE} /\ tx.amount > 0}

TipBelowStakingBound == getLatestBlock.header.index < MaxStakingHeight

NextStaking ==
  \/ /\ PoolBelowBound
     /\ \E tx \in StakingInputs(now) : AddTransaction(tx)
     /\ UNCHANGED otherVars
  \/ /\ TipBelowStakingBound
     /\ \E block \in PeerBlocks : AddBlock(block)
     /\ UNCHANGED otherVars
  \/ /\ TipBelowStakingBound
     /\ \E validatorAddress \in Addr, nonce \in HeaderNonces :
          \E signature \in {"", validatorAddress} :
            CreateBlock(validatorAddress, signature, nonce, NextTick)
     /\ UNCHANGED otherVars
  \/ /\ \E address \in Addr, stake \in Amounts : RegisterValidator(address, stake)
     /\ UNCHANGED otherVars

SpecStaking == Init /\ [][NextStaking]_vars

\* ---------------------------------------------------------------- two nodes
\* The operations on the ledger of the second node.  Transactions and
\* registrations reach both nodes at once; a block the first node appended
\* travels, and the first node waits until it is delivered.
addTransactionAt(node, tx) ==
  IF isValidTransaction(node.accounts, tx)
  THEN [node EXCEPT !.pendingTransactions = Append(@, tx)]
  ELSE node

registerValidatorAt(node, address, stake, t) ==
  [node EXCEPT !.validators =
     registerValidator(@, address, stake, node.chain[Len(node.chain)].header.index, t)]

\* Blockchain.addBlock at the second node, whose Date.now() reads t
addBlockAt(node, block, t) ==
  IF ~isValidBlock(node.chain[Len(node.chain)], node.validators, node.accounts, block)
  THEN node
  ELSE LET processed == LedgerAfter(Ledger(node.accounts, node.validators),
                                    block.transactions, Len(block.transactions),
                                    block.header.index, t)
       IN [chain |-> Append(node.chain, block),
           pendingTransactions |->
             FilterPool(node.pendingTransactions, TxIds(block.transactions)),
           validators |-> UpdateProposer(processed.validators, block),
           accounts |-> processed.accounts]

\* the two nodes hold the same chain, accounts, pool, and validators of the
\* same stake and activity
SameLedger ==
  /\ peer.chain = chain
  /\ peer.accounts = accounts
  /\ peer.pendingTransactions = pendingTransactions
  /\ Len(peer.validators) = Len(validators)
  /\ \A i \in 1..Len(validators) :
       /\ i <= Len(peer.validators)
       /\ peer.validators[i].address = validators[i].address
       /\ peer.validators[i].stake = validators[i].stake
       /\ peer.validators[i].isActive = validators[i].isActive

\* the block the first node just appended sets out for the second node
Broadcast ==
  /\ inFlight' = <<[block |-> chain'[Len(chain')], synced |-> SameLedger]>>
  /\ UNCHANGED <<peer, observedVars, serviceVars>>

\* milliseconds between the first node's and the second node's Date.now()
DeliveryDelays == {0, 1}

\* NodeService.handleNewBlock at the second node
Deliver(delay) ==
  /\ inFlight # <<>>
  /\ peer' = addBlockAt(peer, inFlight[1].block, now + delay)
  /\ inFlight' = <<>>
  /\ UNCHANGED <<ledgerVars, observedVars, serviceVars>>

NextNodes ==
  \/ /\ PoolBelowBound
     /\ inFlight = <<>>
     /\ \E tx \in TransactionInputs(now) :
          /\ AddTransaction(tx)
          /\ peer' = addTransactionAt(peer, tx)
     /\ UNCHANGED <<inFlight, observedVars, serviceVars>>
  \/ /\ TipBelowBound
     /\ inFlight = <<>>
     /\ \E block \in PeerBlocks : AddBlock(block)
     /\ Broadcast
  \/ /\ TipBelowBound
     /\ inFlight = <<>>
     /\ \E validatorAddress \in Addr, nonce \in HeaderNonces :
          \E signature \in {"", validatorAddress} :
            CreateBlock(validatorAddress, signature, nonce, NextTick)
     /\ Broadcast
  \/ /\ inFlight = <<>>
     /\ \E address \in Addr, stake \in Amounts :
          /\ RegisterValidator(address, stake)
          /\ peer' = registerValidatorAt(peer, address, stake, now)
     /\ UNCHANGED <<inFlight, observedVars, serviceVars>>
  \/ \E delay \in DeliveryDelays : Deliver(delay)

SpecNodes == Init /\ [][NextNodes]_vars

\* ---------------------------------------------------------------- a competing branch
\* The second node holds the same ledger as the first until the first node
\* produces a block that the second never sees; the second node then appends
\* blocks of its own on the common parent and sends them to the first node.
InSync ==
  /\ peer.chain = chain
  /\ inFlight = <<>>
  /\ argument = <<>>

\* a block built on the tip of node from the first transactions of its pool
BlockAt(node, validator, txs, t) ==
  [header |-> [index |-> node.chain[Len(node.chain)].header.index + 1,
               previousHash |-> calculateBlockHash(node.chain[Len(node.chain)]),
               timestamp |-> t,
               merkleRoot |-> calculateMerkleRoot(txs),
               validator |-> validator,
               nonce |-> 0],
   transactions |-> txs,
   signature |-> validator]

ListsAt(node) ==
  LET selected == selectTransactionsForBlock(node.pendingTransactions)
  IN {SubSeq(selected, 1, k) : k \in 0..Len(selected)}

\* both nodes receive the same block from a third one
BothReceive(block) ==
  /\ AddBlock(block)
  /\ peer' = addBlockAt(peer, block, now)
  /\ UNCHANGED <<inFlight, observedVars, serviceVars>>

\* the second node appends a block on its own tip, the parent of the first
\* node's tip or the block it appended there, and sends it; the block is not
\* the one the first node holds at that height
PeerAppends(block, t) ==
  /\ ~InSync
  /\ Len(peer.chain) <= Len(chain)
  /\ Len(peer.chain) < Len(chain) => chain[Len(chain)] # block
  /\ peer' = addBlockAt(peer, block, t)
  /\ peer' # peer
  /\ inFlight' = Append(inFlight, block)
  /\ UNCHANGED <<ledgerVars, observedVars, serviceVars>>

\* NodeService.handleNewBlock at the first node for the next block sent
DeliverToNode ==
  /\ inFlight # <<>>
  /\ CallAddBlock(Head(inFlight))
  /\ argument' = Append(argument, Head(inFlight))
  /\ inFlight' = Tail(inFlight)
  /\ UNCHANGED <<peer, serviceVars>>

TipBelowForkBound == getLatestBlock.header.index < MaxForkHeight

NextFork ==
  \/ /\ InSync
     /\ PoolBelowBound
     /\ \E tx \in TransactionInputs(now) :
          /\ AddTransaction(tx)
          /\ peer' = addTransactionAt(peer, tx)
     /\ UNCHANGED <<inFlight, observedVars, serviceVars>>
  \/ /\ InSync
     /\ \E address \in Addr, stake \in Amounts :
          /\ RegisterValidator(address, stake)
          /\ peer' = registerValidatorAt(peer, address, stake, now)
     /\ UNCHANGED <<inFlight, observedVars, serviceVars>>
  \/ /\ InSync
     /\ TipBelowForkBound
     /\ \E block \in PeerBlocks : BothReceive(block)
  \/ /\ InSync
     /\ TipBelowForkBound
     /\ \E validatorAddress \in Addr, nonce \in HeaderNonces :
          CreateBlock(validatorAddress, validatorAddress, nonce, NextTick)
     /\ UNCHANGED otherVars
  \/ \E validator \in Addr, delay \in DeliveryDelays :
       \E txs \in ListsAt(peer) :
         PeerAppends(BlockAt(peer, validator, txs, now + delay), now + delay)
  \/ DeliverToNode

SpecFork == Init /\ [][NextFork]_vars

\* ---------------------------------------------------------------- block assembly from drawn pools
\* Reward transactions of the network as a peer may send them, which
\* addTransaction accepts whatever their fields; an id is the rank of the id
\* string in lexicographic order
AssemblyTransaction(id, fee, t) ==
  [id |-> id, type |-> REWARD, from |-> NETWORK, to |-> "a1", amount |-> blockReward,
   fee |-> fee, timestamp |-> t, signature |-> "NETWORK_REWARD", nonce |-> 0]

AssemblyTransactions ==
  {AssemblyTransaction(id, fee, t) : id \in {1, 2}, fee \in {1, 2}, t \in {0, TickMs}}

RECURSIVE AssemblyLists(_)
AssemblyLists(n) ==
  IF n = 0 THEN {<<>>}
  ELSE LET shorter == AssemblyLists(n - 1)
       IN shorter \cup {Append(list, tx) : list \in shorter, tx \in AssemblyTransactions}

\* the ledger after addTransaction was called for each entry of a drawn pool
InitAssembly ==
  /\ chain = <<GenesisBlock>>
  /\ pendingTransactions \in AssemblyLists(MaxAssemblyPool)
  /\ validators = <<>>
  /\ accounts = <<>>
  /\ now = genesisTimestamp
  /\ outcome = NoCall
  /\ argument = <<>>
  /\ peer = NewLedger
  /\ inFlight = <<>>
  /\ NewServices

NextAssembly ==
  \/ /\ \E address \in Addr, stake \in Amounts : RegisterValidator(address, stake)
     /\ UNCHANGED otherVars
  \/ /\ getLatestBlock.header.index = 0
     /\ \E validatorAddress \in Addr, nonce \in HeaderNonces :
          CreateBlock(validatorAddress, validatorAddress, nonce, NextTick)
     /\ UNCHANGED otherVars

SpecAssembly == InitAssembly /\ [][NextAssembly]_vars

\* ---------------------------------------------------------------- the merkle root of drawn lists
\* the transactions the lists are made of
MerkleTransactions ==
  {RewardTransaction(to, genesisTimestamp) : to \in Addr}
  \cup {Transaction(REGULAR, "a1", "a2", 1000, 1, genesisTimestamp, 0, "a1")}

\* the lists of at most n transactions
RECURSIVE TransactionLists(_)
TransactionLists(n) ==
  IF n = 0 THEN {<<>>}
  ELSE LET shorter == TransactionLists(n - 1)
       IN shorter \cup {Append(list, tx) : list \in shorter, tx \in MerkleTransactions}

InitMerkle ==
  /\ chain = <<GenesisBlock>>
  /\ pendingTransactions = <<>>
  /\ validators = <<>>
  /\ accounts = <<>>
  /\ now = genesisTimestamp
  /\ outcome = NoCall
  /\ argument \in TransactionLists(MaxMerkleLen)
  /\ peer = NewLedger
  /\ inFlight = <<>>
  /\ NewServices

\* calculateMerkleRoot(argument)
CallCalculateMerkleRoot ==
  /\ outcome = NoCall
  /\ outcome' = Returned("calculateMerkleRoot", calculateMerkleRoot(argument), "none")
  /\ UNCHANGED <<ledgerVars, argument, peerVars, serviceVars>>

NextMerkle == CallCalculateMerkleRoot

SpecMerkle == InitMerkle /\ [][NextMerkle]_vars


\* ---------------------------------------------------------------- the peer-to-peer service
\* NodeConfig of the node: its network, the peer limit, discovery enabled and
\* no bootstrap nodes; the other name is what a node of another network announces
networkId == "aurum-mainnet"

NetworkIds == {networkId, "other"}

maxPeers == 2

\* P2PService.nodeId of the node, and the ids remote nodes announce
nodeId == "n0"

NodeIds == {"n1", "n2", "n3"}

\* MessageType
HANDSHAKE == "handshake"
DISCONNECT == "disconnect"
GET_PEERS == "get_peers"
PEERS == "peers"
GET_BLOCKS == "get_blocks"
BLOCKS == "blocks"
NEW_BLOCK == "new_block"
NEW_TRANSACTION == "new_transaction"

\* a message on a session; a socket is the position of its session in sockets,
\* whose state is connecting, open, closing (close() was called here and the
\* close event is still to come) or closed
Message(socket, type, data) == [socket |-> socket, type |-> type, data |-> data]

\* sendMessage: socket.send delivers on an open socket only; its error is logged
sendMessage(socket, type, data) ==
  IF sockets[socket] = "open" THEN <<Message(socket, type, data)>> ELSE <<>>

\* an entry of the peer map; networkId is what the handshake that made the
\* entry carried, which the code compares and does not keep
Entry(id, socket, network) == [id |-> id, socket |-> socket, networkId |-> network]

HasPeer(table, id) == \E i \in 1..Len(table) : table[i].id = id

\* Map.set and Map.delete
setPeer(table, id, socket, network) ==
  IF HasPeer(table, id)
  THEN [i \in 1..Len(table) |->
          IF table[i].id = id THEN Entry(id, socket, network) ELSE table[i]]
  ELSE Append(table, Entry(id, socket, network))

deletePeer(table, id) == SelectSeq(table, LAMBDA entry : entry.id # id)

\* the loop of handleDisconnect: the first entry that holds the socket goes
RECURSIVE withoutSocket(_, _)
withoutSocket(table, socket) ==
  IF table = <<>> THEN <<>>
  ELSE IF Head(table).socket = socket THEN Tail(table)
  ELSE <<Head(table)>> \o withoutSocket(Tail(table), socket)

\* broadcast: one sendMessage for every entry of the peer map
RECURSIVE broadcast(_, _, _)
broadcast(table, type, data) ==
  IF table = <<>> THEN <<>>
  ELSE sendMessage(Head(table).socket, type, data) \o broadcast(Tail(table), type, data)

\* what a handler leaves to be observed: the message it handled, the event
\* it emitted and the messages it sent
Handled(call, message, emitted, messages) ==
  /\ argument' = message
  /\ outcome' = Returned(call, "none", emitted)
  /\ sent' = messages

\* the handshake the node sends on a session
OwnHandshake(socket) ==
  Message(socket, HANDSHAKE, [nodeId |-> nodeId, networkId |-> networkId])

\* handleConnection: the server, which exists while the node runs, accepted a session
HandleConnection ==
  /\ isRunning
  /\ sockets' = Append(sockets, "open")
  /\ Handled("handleConnection", <<>>, "none", <<OwnHandshake(Len(sockets) + 1)>>)
  /\ UNCHANGED <<ledgerVars, peerVars, peers, nodeVars, storageVars>>

\* connectToPeer up to the return: dials sessions are created, none when the
\* peer map is full
connectToPeer(dials) ==
  IF Len(peers) >= maxPeers THEN sockets
  ELSE sockets \o [i \in 1..dials |-> "connecting"]

\* connectToPeer called through the API
ConnectToPeer ==
  /\ sockets' = connectToPeer(1)
  /\ Handled("connectToPeer", <<>>, "none", <<>>)
  /\ UNCHANGED <<ledgerVars, peerVars, peers, nodeVars, storageVars>>

\* the open event of a dialed session
SocketOpen(socket) ==
  /\ sockets[socket] = "connecting"
  /\ sockets' = [sockets EXCEPT ![socket] = "open"]
  /\ Handled("open", <<>>, "none", <<OwnHandshake(socket)>>)
  /\ UNCHANGED <<ledgerVars, peerVars, peers, nodeVars, storageVars>>

\* handleHandshake with a slip: the network id is not compared
HandleHandshake_NoNetworkCheck(socket, id, network) ==
  /\ sockets[socket] = "open"
  /\ peers' = setPeer(peers, id, socket, network)
  /\ Handled("handleHandshake",
             <<Message(socket, HANDSHAKE, [nodeId |-> id, networkId |-> network])>>,
             "peer:connected", sendMessage(socket, GET_PEERS, <<>>))
  /\ UNCHANGED <<ledgerVars, peerVars, sockets, nodeVars, storageVars>>

\* handleHandshake for a handshake that arrived on an open session
HandleHandshake(socket, id, network) ==
  /\ sockets[socket] = "open"
  /\ IF network # networkId
     THEN /\ sockets' = [sockets EXCEPT ![socket] = "closing"]
          /\ Handled("handleHandshake",
                     <<Message(socket, HANDSHAKE, [nodeId |-> id, networkId |-> network])>>,
                     "none", sendMessage(socket, DISCONNECT, "Network ID mismatch"))
          /\ UNCHANGED peers
     ELSE /\ peers' = setPeer(peers, id, socket, network)
          /\ Handled("handleHandshake",
                     <<Message(socket, HANDSHAKE, [nodeId |-> id, networkId |-> network])>>,
                     "peer:connected", sendMessage(socket, GET_PEERS, <<>>))
          /\ UNCHANGED sockets
  /\ UNCHANGED <<ledgerVars, peerVars, nodeVars, storageVars>>

\* handlePeers: connectToPeer for every listed id that is not the node's own
\* and not in the peer map
HandlePeers(socket, list) ==
  /\ sockets[socket] = "open"
  /\ sockets' = connectToPeer(Cardinality({id \in list : id # nodeId /\ ~HasPeer(peers, id)}))
  /\ Handled("handlePeers", <<Message(socket, PEERS, list)>>, "none", <<>>)
  /\ UNCHANGED <<ledgerVars, peerVars, peers, nodeVars, storageVars>>

\* handlePeerDisconnect: the entry of the announced sender goes, the session closes
HandlePeerDisconnect(socket, from) ==
  /\ sockets[socket] = "open"
  /\ peers' = deletePeer(peers, from)
  /\ sockets' = [sockets EXCEPT ![socket] = "closing"]
  /\ Handled("handlePeerDisconnect", <<Message(socket, DISCONNECT, from)>>,
             IF HasPeer(peers, from) THEN "peer:disconnected" ELSE "none", <<>>)
  /\ UNCHANGED <<ledgerVars, peerVars, nodeVars, storageVars>>

\* handleDisconnect, the close event of a session that the remote side, an
\* error or close() ended
HandleDisconnect(socket) ==
  /\ sockets[socket] # "closed"
  /\ sockets' = [sockets EXCEPT ![socket] = "closed"]
  /\ peers' = withoutSocket(peers, socket)
  /\ Handled("handleDisconnect", <<>>,
             IF peers' # peers THEN "peer:disconnected" ELSE "none", <<>>)
  /\ UNCHANGED <<ledgerVars, peerVars, nodeVars, storageVars>>

\* ---------------------------------------------------------------- the storage service
\* fs.writeFile opens the file, which empties it, and then writes the
\* document piece by piece from the start; the pieces of a document
DocumentParts == 2

\* Blockchain.getState
getState ==
  [chain |-> chain, pendingTransactions |-> pendingTransactions,
   validators |-> validators, accounts |-> accounts]

\* the state the blockAdded handler reads when addBlock emits: createBlock
\* pushes its reward afterwards
EmittedState(block) ==
  [chain |-> chain', validators |-> validators', accounts |-> accounts',
   pendingTransactions |-> FilterPool(pendingTransactions, TxIds(block.transactions))]

\* stateJson of saveBlockchainState: the maps become the lists of their
\* entries, Array.from(map.entries())
stateJson(state) ==
  [blocks |-> state.chain,
   latestBlock |-> state.chain[Len(state.chain)],
   validators |-> [i \in 1..Len(state.validators) |->
                     <<state.validators[i].address, state.validators[i]>>],
   accounts |-> {<<a, state.accounts[a]>> : a \in DOMAIN state.accounts},
   pendingTransactions |-> state.pendingTransactions]

\* new Map(entries) for the validators: a later entry of a key replaces the
\* value where the key first stood
RECURSIVE validatorMap(_, _)
validatorMap(entries, n) ==
  IF n = 0 THEN <<>>
  ELSE LET before == validatorMap(entries, n - 1)
           held == {i \in 1..Len(before) : before[i].address = entries[n][1]}
       IN IF held = {} THEN Append(before, entries[n][2])
          ELSE [i \in 1..Len(before) |-> IF i \in held THEN entries[n][2] ELSE before[i]]

\* new Map(entries) for the accounts
accountMap(entries) ==
  [a \in {entry[1] : entry \in entries} |->
     (CHOOSE entry \in entries : entry[1] = a)[2]]

\* piece k of the document of a state, and what a gap in the file reads as
Part(state, k) == [part |-> k, json |-> stateJson(state)]

Hole == Part(NewLedger, 0)

\* JSON.stringify(stateJson): the first piece holds the blocks, the last
\* piece the validators, the accounts and the pool
Document(state) == [k \in 1..DocumentParts |-> Part(state, k)]

\* StorageService.saveBlockchainState up to its await: the document is made
\* and fs.writeFile is called
saveBlockchainState(state) == Append(writes, [state |-> state, position |-> 0])

\* the file content after a piece is written at position k
writePart(content, k, part) ==
  [i \in 1..(IF Len(content) < k THEN k ELSE Len(content)) |->
     IF i = k THEN part
     ELSE IF i <= Len(content) THEN content[i] ELSE Hole]

\* the next step of the i-th fs.writeFile call: the open, or the next piece
WriteStep(i) ==
  /\ writes[i].position <= DocumentParts
  /\ stateFile' =
       [exists |-> TRUE,
        content |-> IF writes[i].position = 0 THEN <<>>
                    ELSE writePart(stateFile.content, writes[i].position,
                                   Part(writes[i].state, writes[i].position))]
  /\ writes' = [writes EXCEPT ![i].position = @ + 1]
  /\ Handled("writeFile", <<>>, "none", <<>>)
  /\ UNCHANGED <<ledgerVars, peerVars, peers, sockets, nodeVars, wallets>>

\* the i-th fs.writeFile call has settled
Settled(i) == writes[i].position > DocumentParts

\* JSON.parse accepts the content
Parses(content) ==
  /\ Len(content) = DocumentParts
  /\ \A k \in 1..DocumentParts : content[k].part = k

\* StorageService.loadBlockchainState and Blockchain.restoreState: the ledger
\* NodeService.loadBlockchainState leaves
restoredFrom(file, ledger) ==
  IF file.exists /\ Parses(file.content)
  THEN LET first == file.content[1].json
           last == file.content[DocumentParts].json
       IN [chain |-> first.blocks,
           pendingTransactions |-> last.pendingTransactions,
           validators |-> validatorMap(last.validators, Len(last.validators)),
           accounts |-> accountMap(last.accounts)]
  ELSE ledger

loadBlockchainState == restoredFrom(stateFile, getState)

\* ---------------------------------------------------------------- the wallet service
\* The private key of an address is named by the address, as the signatures
\* are.  The passwords a caller may give
Passwords == {"pw1", "pw2", "pw3"}

\* encryptPrivateKey: the bytes of the key under the key stream that scrypt
\* and aes-256-ctr derive from the password, the random salt and the iv
encryptPrivateKey(privateKey, password) == [plain |-> privateKey, stream |-> password]

\* what the bytes of a private key read as under another key stream
OtherBytes == [privateKey \in Addr |-> IF privateKey = "a1" THEN "b1" ELSE "b2"]

\* decryptPrivateKey: aes-256-ctr has no padding and the file holds no mac,
\* so no password makes decipher.final() throw; another password gives
\* another key stream and so other bytes
decryptPrivateKey(encryptedPrivateKey, password) ==
  IF password = encryptedPrivateKey.stream
  THEN encryptedPrivateKey.plain
  ELSE OtherBytes[encryptedPrivateKey.plain]

\* WalletService.saveWallet: the wallet file of the address is written
saveWallet(address, privateKey, password) ==
  [a \in (DOMAIN wallets) \cup {address} |->
     IF a = address
     THEN [address |-> address,
           encryptedPrivateKey |-> encryptPrivateKey(privateKey, password)]
     ELSE wallets[a]]

\* WalletService.createWallet: the key pair of a new address is generated
\* and saved
CreateWallet(address, password) ==
  /\ address \notin DOMAIN wallets
  /\ wallets' = saveWallet(address, address, password)
  /\ Handled("createWallet", <<address, password>>, "none", <<>>)
  /\ UNCHANGED <<ledgerVars, peerVars, peers, sockets, nodeVars, stateFile, writes>>

\* WalletService.importWallet: the address is derived from the private key
\* and the wallet is saved, over the file the address may have
ImportWallet(privateKey, password) ==
  /\ wallets' = saveWallet(privateKey, privateKey, password)
  /\ Handled("importWallet", <<privateKey, password>>, "none", <<>>)
  /\ UNCHANGED <<ledgerVars, peerVars, peers, sockets, nodeVars, stateFile, writes>>

\* WalletService.loadWallet: the private key of the wallet it returns, or
\* "throws" when there is no file to read
loadWallet(address, password) ==
  IF address \in DOMAIN wallets
  THEN decryptPrivateKey(wallets[address].encryptedPrivateKey, password)
  ELSE "throws"

CallLoadWallet(address, password) ==
  /\ argument' = <<address, password>>
  /\ outcome' = Returned("loadWallet", loadWallet(address, password), "none")
  /\ sent' = <<>>
  /\ UNCHANGED <<ledgerVars, peerVars, peers, sockets, nodeVars, storageVars>>

NextWallets ==
  \/ \E address \in Addr, password \in Passwords : CreateWallet(address, password)
  \/ \E privateKey \in Addr, password \in Passwords : ImportWallet(privateKey, password)
  \/ \E address \in Addr, password \in Passwords : CallLoadWallet(address, password)

SpecWallets == Init /\ [][NextWallets]_vars

\* ---------------------------------------------------------------- the node service
\* the count requestBlocks asks for
BatchSize == 100

\* P2PService.handleGetBlocks at a node: the blocks it answers with
handleGetBlocks(node, fromIndex, count) == <<>>

\* NodeService.start: the state is loaded, the server starts, and
\* syncWithNetwork runs up to its return or its await; the peer asked is any
\* entry of the peer map
Start ==
  /\ ~isRunning
  /\ chain' = loadBlockchainState.chain
  /\ pendingTransactions' = loadBlockchainState.pendingTransactions
  /\ validators' = loadBlockchainState.validators
  /\ accounts' = loadBlockchainState.accounts
  /\ isRunning' = TRUE
  /\ argument' = <<>>
  /\ IF isSyncing
     THEN /\ outcome' = Returned("start", "none", "none")
          /\ sent' = <<>>
          /\ UNCHANGED <<isSyncing, tasks, inFlight>>
     ELSE IF peers = <<>>
     THEN /\ outcome' = Returned("start", "none", "sync_started")
          /\ sent' = <<>>
          /\ UNCHANGED <<isSyncing, tasks, inFlight>>
     ELSE /\ outcome' = Returned("start", "none", "sync_started")
          /\ isSyncing' = TRUE
          /\ tasks' = [tasks EXCEPT !.sync = "requested"]
          /\ \E i \in 1..Len(peers) :
               sent' = sendMessage(peers[i].socket, GET_BLOCKS,
                                   [fromIndex |-> chain'[Len(chain')].header.index + 1,
                                    count |-> BatchSize])
          /\ inFlight' = sent'
  /\ UNCHANGED <<now, peer, peers, sockets, nodeValidatorAddress, validatorInterval,
                 storageVars>>

\* the second node, which runs the same code, handles the GetBlocks message
PeerHandlesGetBlocks ==
  /\ inFlight # <<>>
  /\ Head(inFlight).type = GET_BLOCKS
  /\ inFlight' = <<Message(Head(inFlight).socket, BLOCKS,
                           handleGetBlocks(peer, Head(inFlight).data.fromIndex,
                                           Head(inFlight).data.count))>>
  /\ UNCHANGED <<ledgerVars, observedVars, peer, serviceVars>>

\* what follows the await in syncWithNetwork once requestBlocks resolved
SyncResumes(blocksReceived, emitted) ==
  IF tasks.sync = "requested"
  THEN /\ isSyncing' = FALSE
       /\ tasks' = [tasks EXCEPT !.sync = "idle"]
       /\ outcome' = Returned("syncWithNetwork", blocksReceived, "sync_completed")
  ELSE /\ outcome' = Returned("handleBlocks", "none", emitted)
       /\ UNCHANGED <<isSyncing, tasks>>

\* P2PService.handleBlocks: blocks:received is emitted, which resolves a
\* waiting requestBlocks with the number of blocks
HandleBlocks ==
  /\ inFlight # <<>>
  /\ Head(inFlight).type = BLOCKS
  /\ sockets[Head(inFlight).socket] = "open"
  /\ inFlight' = <<>>
  /\ argument' = inFlight
  /\ sent' = <<>>
  /\ SyncResumes(Len(Head(inFlight).data), "blocks:received")
  /\ UNCHANGED <<ledgerVars, peer, peers, sockets, isRunning, nodeValidatorAddress,
                 validatorInterval, storageVars>>

\* the timer of requestBlocks resolves the request with 0
RequestTimesOut ==
  /\ tasks.sync = "requested"
  /\ argument' = <<>>
  /\ sent' = <<>>
  /\ SyncResumes(0, "none")
  /\ UNCHANGED <<ledgerVars, peerVars, peers, sockets, isRunning, nodeValidatorAddress,
                 validatorInterval, storageVars>>

\* handleNewTransaction with a slip: the transaction is sent on whatever
\* addTransaction returned
HandleNewTransaction_AlwaysSendsOn(socket, transaction) ==
  /\ sockets[socket] = "open"
  /\ CallAddTransaction(transaction)
  /\ argument' = <<Message(socket, NEW_TRANSACTION, transaction)>>
  /\ sent' = broadcast(peers, NEW_TRANSACTION, transaction)
  /\ UNCHANGED <<peerVars, peers, sockets, nodeVars, storageVars>>

\* NodeService.handleNewTransaction for a NewTransaction message on an open session
HandleNewTransaction(socket, transaction) ==
  /\ sockets[socket] = "open"
  /\ CallAddTransaction(transaction)
  /\ argument' = <<Message(socket, NEW_TRANSACTION, transaction)>>
  /\ sent' = IF isValidTransaction(accounts, transaction)
             THEN broadcast(peers, NEW_TRANSACTION, transaction)
             ELSE <<>>
  /\ UNCHANGED <<peerVars, peers, sockets, nodeVars, storageVars>>

\* NodeService.handleNewBlock for a NewBlock message on an open session; the
\* blockAdded handler starts a snapshot write
HandleNewBlock(socket, block) ==
  /\ sockets[socket] = "open"
  /\ CallAddBlock(block)
  /\ argument' = <<Message(socket, NEW_BLOCK, block)>>
  /\ IF isValidBlock(getLatestBlock, validators, accounts, block)
     THEN /\ sent' = broadcast(peers, NEW_BLOCK, block)
          /\ writes' = saveBlockchainState(EmittedState(block))
     ELSE /\ sent' = <<>>
          /\ UNCHANGED writes
  /\ UNCHANGED <<peerVars, peers, sockets, nodeVars, stateFile, wallets>>

\* Blockchain.registerValidator called by the owner of the node
NodeRegistersValidator(address, stake) ==
  /\ CallRegisterValidator(address, stake)
  /\ argument' = <<>>
  /\ sent' = <<>>
  /\ UNCHANGED <<peerVars, peers, sockets, nodeVars, storageVars>>

\* Blockchain.getAddressStake
getAddressStake(accs, address) == IF address \in DOMAIN accs THEN accs[address].stake ELSE 0

\* whether registerAsValidator gets past its checks: the stake of the
\* address is positive and registerValidator accepts it
Registers(address) ==
  /\ getAddressStake(accounts, address) > 0
  /\ getAddressStake(accounts, address) >= minStake

\* NodeService.registerAsValidator from the loaded wallet on, for an address
\* that gets past the checks; startValidator sets the timer, whose callback
\* holds the private key of the wallet
RegisterWithKey(address, privateKey, given) ==
  /\ Registers(address)
  /\ validators' = registerValidator(validators, address, getAddressStake(accounts, address),
                                     getLatestBlock.header.index, now)
  /\ nodeValidatorAddress' = address
  /\ validatorInterval' = TRUE
  /\ tasks' = [tasks EXCEPT !.timer = privateKey]
  /\ argument' = given
  /\ outcome' = Returned("registerAsValidator", "true", "validatorRegistered")
  /\ sent' = <<>>
  /\ UNCHANGED <<chain, pendingTransactions, accounts, now, peerVars, peers, sockets,
                 isRunning, isSyncing, storageVars>>

\* NodeService.registerAsValidator for an address whose wallet the node
\* holds, called with the password of the wallet
RegisterAsValidator(address) == RegisterWithKey(address, address, <<>>)

\* NodeService.registerAsValidator with any password: what loadWallet throws
\* is caught, and without stake nothing is registered
RegisterAsValidatorWith(address, password) ==
  LET privateKey == loadWallet(address, password)
  IN IF privateKey # "throws" /\ Registers(address)
     THEN RegisterWithKey(address, privateKey, <<address, password>>)
     ELSE /\ argument' = <<address, password>>
          /\ outcome' = Returned("registerAsValidator", "false", "none")
          /\ sent' = <<>>
          /\ UNCHANGED <<ledgerVars, peerVars, peers, sockets, nodeVars, storageVars>>

\* NodeService.tryValidateBlock on a tick of the validator timer, with the
\* draw of selectValidator; what createBlock throws is caught
Tick(draw, nonce) ==
  /\ validatorInterval
  /\ argument' = <<>>
  /\ LET selected == selectValidator(validators, draw)
         block == NewBlock(nodeValidatorAddress, tasks.timer, nonce, NextTick)
     IN IF /\ nodeValidatorAddress # ""
           /\ selected = nodeValidatorAddress
           /\ isValidBlock(getLatestBlock, validators, accounts, block)
        THEN /\ CreateBlock(nodeValidatorAddress, tasks.timer, nonce, NextTick)
             /\ outcome' = Returned("tryValidateBlock", selected, "blockAdded")
             /\ sent' = broadcast(peers, NEW_BLOCK, block)
             /\ writes' = saveBlockchainState(EmittedState(block))
        ELSE /\ now' = NextTick
             /\ outcome' = Returned("tryValidateBlock", selected, "none")
             /\ sent' = <<>>
             /\ UNCHANGED <<chain, pendingTransactions, validators, accounts, writes>>
  /\ UNCHANGED <<peerVars, peers, sockets, nodeVars, stateFile, wallets>>

\* P2PService.stop on the sessions: close() on every socket of the peer map
closeAll(table) ==
  [socket \in 1..Len(sockets) |->
     IF sockets[socket] # "closed" /\ \E i \in 1..Len(table) : table[i].socket = socket
     THEN "closing" ELSE sockets[socket]]

\* the loop of P2PService.stop: the Disconnect messages that leave; send
\* throws, and is caught, on a session the loop closed already
RECURSIVE disconnectAll(_, _)
disconnectAll(table, closed) ==
  IF table = <<>> THEN <<>>
  ELSE (IF Head(table).socket \in closed THEN <<>>
        ELSE sendMessage(Head(table).socket, DISCONNECT, "Node shutting down"))
       \o disconnectAll(Tail(table), closed \cup {Head(table).socket})

\* NodeService.stop up to its first await: the timer is cleared and the
\* snapshot write is started; on a node that is not running it returns at once
StopBegins ==
  /\ Handled("stop", <<>>, "none", <<>>)
  /\ IF isRunning
     THEN /\ validatorInterval' = FALSE
          /\ writes' = saveBlockchainState(getState)
          /\ tasks' = [tasks EXCEPT !.stop = Append(@, Len(writes) + 1)]
     ELSE UNCHANGED <<validatorInterval, writes, tasks>>
  /\ UNCHANGED <<ledgerVars, peerVars, peers, sockets, isRunning, isSyncing,
                 nodeValidatorAddress, stateFile, wallets>>

\* stop with a slip: the peers are not told and their sessions stay open
StopEnds_KeepsSessions(call) ==
  /\ Settled(tasks.stop[call])
  /\ peers' = <<>>
  /\ isRunning' = FALSE
  /\ tasks' = [tasks EXCEPT !.stop =
                 SubSeq(@, 1, call - 1) \o SubSeq(@, call + 1, Len(@))]
  /\ Handled("p2pService.stop", <<>>, "none", <<>>)
  /\ UNCHANGED <<ledgerVars, peerVars, sockets, isSyncing, nodeValidatorAddress,
                 validatorInterval, storageVars>>

\* NodeService.stop from the settled write on: P2PService.stop, and the node
\* is marked not running
StopEnds(call) ==
  /\ Settled(tasks.stop[call])
  /\ sockets' = closeAll(peers)
  /\ peers' = <<>>
  /\ isRunning' = FALSE
  /\ tasks' = [tasks EXCEPT !.stop =
                 SubSeq(@, 1, call - 1) \o SubSeq(@, call + 1, Len(@))]
  /\ Handled("p2pService.stop", <<>>, "none", disconnectAll(peers, {}))
  /\ UNCHANGED <<ledgerVars, peerVars, isSyncing, nodeValidatorAddress,
                 validatorInterval, storageVars>>

\* ---------------------------------------------------------------- gossip
\* A running node with sessions to peers that hand it transactions and blocks.
SocketsBelowGossipBound == Len(sockets) < MaxGossipSockets

TipBelowGossipBound == getLatestBlock.header.index < MaxGossipHeight

\* what the peers hand over: rewards, first transfers signed or not, and
\* blocks built on the tip, signed or not
GossipTransactions(t) ==
  {tx \in TransactionInputs(t) : tx.type = REWARD \/ (tx.type = REGULAR /\ tx.nonce = 0)}

GossipBlocks ==
  {PeerBlock(validator, IF signed THEN validator ELSE "", txs) :
     validator \in Addr, signed \in BOOLEAN, txs \in PeerLists}

\* a remote node sends its handshake once, under an id of its own
NoEntryFor(socket, id) ==
  \A i \in 1..Len(peers) : peers[i].socket # socket /\ peers[i].id # id

NextGossip ==
  \/ Start
  \/ /\ SocketsBelowGossipBound
     /\ HandleConnection
  \/ \E socket \in 1..Len(sockets), id \in NodeIds :
       /\ NoEntryFor(socket, id)
       /\ HandleHandshake(socket, id, networkId)
  \/ \E address \in Addr, stake \in Amounts : NodeRegistersValidator(address, stake)
  \/ /\ PoolBelowBound
     /\ \E socket \in 1..Len(sockets), tx \in GossipTransactions(now) :
          HandleNewTransaction(socket, tx)
  \/ /\ TipBelowGossipBound
     /\ \E socket \in 1..Len(sockets), block \in GossipBlocks :
          HandleNewBlock(socket, block)

SpecGossip == Init /\ [][NextGossip]_vars

\* ---------------------------------------------------------------- the peer table
\* A node whose sessions come and go: inbound connections, dials through the
\* API or after a Peers message, handshakes of either network, disconnects.
\* the lists of a Peers message
ListedPeers == {{nodeId, "n1"}, {"n2", "n3"}}

\* the new ids of a list, for each of which handlePeers dials
NewPeers(list) == {id \in list : id # nodeId /\ ~HasPeer(peers, id)}

NextPeers ==
  \/ Start
  \/ /\ Len(sockets) < MaxSockets
     /\ HandleConnection
  \/ /\ Len(sockets) < MaxSockets
     /\ ConnectToPeer
  \/ \E socket \in 1..Len(sockets) : SocketOpen(socket)
  \/ \E socket \in 1..Len(sockets), id \in NodeIds, network \in NetworkIds :
       HandleHandshake(socket, id, network)
  \/ \E socket \in 1..Len(sockets), list \in ListedPeers :
       /\ Len(sockets) + Cardinality(NewPeers(list)) <= MaxSockets
       /\ HandlePeers(socket, list)
  \/ \E socket \in 1..Len(sockets), from \in NodeIds : HandlePeerDisconnect(socket, from)
  \/ \E socket \in 1..Len(sockets) : HandleDisconnect(socket)

SpecPeers == Init /\ [][NextPeers]_vars

\* ---------------------------------------------------------------- synchronization
\* The second node registers the same validators and appends blocks the
\* first node never receives; the first node then connects to it and starts.
\* the second node appends a block of its own
PeerProduces(validator) ==
  /\ sockets = <<>>
  /\ Len(peer.chain) <= MaxSyncHeight
  /\ peer' = addBlockAt(peer, BlockAt(peer, validator, <<>>, now), now)
  /\ peer' # peer
  /\ UNCHANGED <<ledgerVars, observedVars, inFlight, serviceVars>>

\* registerValidator is called at both nodes
BothRegister(address, stake) ==
  /\ sockets = <<>>
  /\ CallRegisterValidator(address, stake)
  /\ peer' = registerValidatorAt(peer, address, stake, now)
  /\ argument' = <<>>
  /\ UNCHANGED <<inFlight, serviceVars>>

NextSync ==
  \/ \E address \in Addr, stake \in Amounts :
       BothRegister(address, stake)
  \/ \E validator \in Addr : PeerProduces(validator)
  \/ /\ Len(sockets) < MaxSyncSockets
     /\ ConnectToPeer
  \/ /\ Len(sockets) < MaxSyncSockets
     /\ HandleConnection
  \/ \E socket \in 1..Len(sockets) : SocketOpen(socket)
  \/ \E socket \in 1..Len(sockets), id \in NodeIds :
       /\ NoEntryFor(socket, id)
       /\ HandleHandshake(socket, id, networkId)
  \/ Start
  \/ PeerHandlesGetBlocks
  \/ HandleBlocks
  \/ RequestTimesOut

\* the event loop runs every callback that is due, and the peer answers
SpecSync == Init /\ [][NextSync]_vars /\ WF_vars(NextSync)

\* ---------------------------------------------------------------- the validator timer
\* A running node with one session: a peer hands it the transactions and
\* blocks that give an address its stake, the address is registered as the
\* node's validator, and the timer ticks.
TipBelowValidatorBound == getLatestBlock.header.index < MaxValidatorHeight

ClockBelowValidatorBound == now < MaxValidatorTicks * TickMs

\* registerAsValidator is called once
NotYetValidator == nodeValidatorAddress = ""

\* what the peer hands over: rewards and first stakes, and signed blocks
\* built on the tip with the transactions createBlock would select
ValidatorTransactions(t) ==
  {tx \in StakingInputs(t) : tx.type \in {REWARD, STAKE} /\ tx.nonce = 0}

ValidatorBlocks ==
  {PeerBlock(validator, validator, selectTransactionsForBlock(pendingTransactions)) :
     validator \in Addr}

NextValidator ==
  \/ Start
  \/ /\ Len(sockets) < MaxSyncSockets
     /\ HandleConnection
  \/ \E socket \in 1..Len(sockets), id \in NodeIds :
       /\ NoEntryFor(socket, id)
       /\ HandleHandshake(socket, id, networkId)
  \/ \E address \in Addr, stake \in Amounts : NodeRegistersValidator(address, stake)
  \/ /\ PoolBelowBound
     /\ \E socket \in 1..Len(sockets), tx \in ValidatorTransactions(now) :
          HandleNewTransaction(socket, tx)
  \/ /\ TipBelowValidatorBound
     /\ \E socket \in 1..Len(sockets), block \in ValidatorBlocks :
          HandleNewBlock(socket, block)
  \/ /\ NotYetValidator
     /\ \E address \in Addr : RegisterAsValidator(address)
  \/ /\ TipBelowValidatorBound
     /\ ClockBelowValidatorBound
     /\ \E draw \in RandomDraws, nonce \in HeaderNonces : Tick(draw, nonce)

SpecValidator == Init /\ [][NextValidator]_vars

\* ---------------------------------------------------------------- stopping
\* A node with sessions that receives the blocks that give an address its
\* stake, registers it as its validator, and is stopped and started again
\* while the snapshot writes proceed.
\* the node ids of the handshakes
StopPeerIds == {"n1"}

\* the node is started while no snapshot was written, so not after a stop
NeverStopped == writes = <<>>

\* a transaction is handed over while the pool is empty
PoolEmpty == pendingTransactions = <<>>

NextStop ==
  \/ /\ NeverStopped
     /\ Start
  \/ /\ Len(sockets) < MaxStopSockets
     /\ HandleConnection
  \/ \E socket \in 1..Len(sockets), id \in StopPeerIds :
       /\ NoEntryFor(socket, id)
       /\ HandleHandshake(socket, id, networkId)
  \/ /\ Len(validators) < MaxRegistered
     /\ \E address \in Addr, stake \in Amounts : NodeRegistersValidator(address, stake)
  \/ /\ PoolEmpty
     /\ \E socket \in 1..Len(sockets), tx \in ValidatorTransactions(now) :
          HandleNewTransaction(socket, tx)
  \/ /\ getLatestBlock.header.index < MaxStopHeight
     /\ Len(writes) < MaxStopWrites
     /\ \E socket \in 1..Len(sockets), block \in ValidatorBlocks :
          HandleNewBlock(socket, block)
  \/ /\ NotYetValidator
     /\ \E address \in Addr : RegisterAsValidator(address)
  \/ /\ Len(writes) < MaxStopWrites
     /\ StopBegins
  \/ \E i \in 1..Len(writes) : WriteStep(i)
  \/ \E call \in 1..Len(tasks.stop) : StopEnds(call)

SpecStop == Init /\ [][NextStop]_vars

\* ---------------------------------------------------------------- restarting
\* A node that receives blocks, is killed at any moment and is started
\* again on the snapshot file it left.
\* the process dies and a new one is constructed on the same data directory:
\* the writes in flight are lost with it, the file stays as it is; the tip
\* index the dead process had is left to be observed
Kill ==
  /\ chain' = NewLedger.chain
  /\ pendingTransactions' = NewLedger.pendingTransactions
  /\ validators' = NewLedger.validators
  /\ accounts' = NewLedger.accounts
  /\ peers' = <<>>
  /\ sockets' = [socket \in 1..Len(sockets) |-> "closed"]
  /\ isRunning' = FALSE
  /\ isSyncing' = FALSE
  /\ nodeValidatorAddress' = ""
  /\ validatorInterval' = FALSE
  /\ tasks' = NoTasks
  /\ writes' = <<>>
  /\ argument' = <<>>
  /\ outcome' = Returned("kill", getLatestBlock.header.index, "none")
  /\ sent' = <<>>
  /\ UNCHANGED <<now, peerVars, stateFile, wallets>>

NextRestart ==
  \/ Start
  \/ /\ Len(sockets) < MaxGossipSockets
     /\ HandleConnection
  \/ /\ Len(validators) < MaxRegistered
     /\ \E address \in Addr, stake \in Amounts : NodeRegistersValidator(address, stake)
  \/ /\ PoolBelowBound
     /\ \E socket \in 1..Len(sockets), tx \in ValidatorTransactions(now) :
          HandleNewTransaction(socket, tx)
  \/ /\ getLatestBlock.header.index < MaxRestartHeight
     /\ \E socket \in 1..Len(sockets), block \in ValidatorBlocks :
          HandleNewBlock(socket, block)
  \/ \E i \in 1..Len(writes) : WriteStep(i)
  \/ Kill

SpecRestart == Init /\ [][NextRestart]_vars

\* ---------------------------------------------------------------- registering with a password
\* Wallets are made, an address gets its stake from the blocks of a peer,
\* registerAsValidator is called with any password, and the timer ticks.
NextRegister ==
  \/ \E address \in Senders, password \in Passwords : CreateWallet(address, password)
  \/ /\ PoolBelowBound
     /\ \E tx \in ValidatorTransactions(now) : AddTransaction(tx)
     /\ Forgotten
  \/ /\ TipBelowValidatorBound
     /\ \E block \in ValidatorBlocks : AddBlock(block)
     /\ Forgotten
  \/ /\ \E address \in Addr, stake \in Amounts : RegisterValidator(address, stake)
     /\ Forgotten
  \/ /\ NotYetValidator
     /\ \E address \in Addr, password \in Passwords :
          RegisterAsValidatorWith(address, password)
  \/ /\ TipBelowValidatorBound
     /\ ClockBelowValidatorBound
     /\ \E draw \in RandomDraws, nonce \in HeaderNonces : Tick(draw, nonce)

SpecRegister == Init /\ [][NextRegister]_vars

\* ---------------------------------------------------------------- the wallet path
\* WalletService.createTransaction for a wallet the node holds, called with
\* the wallet's password at time t: a transfer signed with the wallet's key
createTransaction(from, to, amount, fee, t) ==
  Transaction(REGULAR, from, to, amount, fee, t, 0, from)

\* NodeService.createTransaction: the transaction is built, handed to
\* addTransaction and sent to the peers; it throws when addTransaction refuses
NodeCreateTransaction(from, to, amount, fee) ==
  LET transaction == createTransaction(from, to, amount, fee, now)
  IN /\ argument' = <<transaction>>
     /\ IF isValidTransaction(accounts, transaction)
        THEN /\ AddTransaction(transaction)
             /\ outcome' = Returned("createTransaction", "transaction", "transactionAdded")
             /\ sent' = broadcast(peers, NEW_TRANSACTION, transaction)
        ELSE /\ UNCHANGED ledgerVars
             /\ outcome' = Returned("createTransaction", "throws", "none")
             /\ sent' = <<>>
     /\ UNCHANGED <<peerVars, peers, sockets, nodeVars, storageVars>>

\* the Reward transactions that fund the senders
FundingTransactions(t) == {tx \in TransactionInputs(t) : tx.type = REWARD}

NextWallet ==
  \/ /\ PoolBelowBound
     /\ \E tx \in FundingTransactions(now) : AddTransaction(tx)
     /\ Forgotten
  \/ /\ TipBelowBound
     /\ \E validatorAddress \in Addr, nonce \in HeaderNonces :
          CreateBlock(validatorAddress, validatorAddress, nonce, NextTick)
     /\ Forgotten
  \/ /\ \E address \in Addr, stake \in Amounts : RegisterValidator(address, stake)
     /\ Forgotten
  \/ /\ PoolBelowBound
     /\ \E from \in Senders, to \in Addr, amount \in Amounts, fee \in Fees :
          NodeCreateTransaction(from, to, amount, fee)

SpecWallet == Init /\ [][NextWallet]_vars

\* ---------------------------------------------------------------- reading a step
\* a step that appended a block, and the block
BlockAppended == Len(chain') = Len(chain) + 1

AppendedBlock == chain'[Len(chain')]

\* a step of createBlock: the only appending step that reads the clock
BlockCreated == BlockAppended /\ now' # now

\* a step of addTransaction that accepted, and the transaction
TransactionAccepted ==
  /\ chain' = chain
  /\ Len(pendingTransactions') = Len(pendingTransactions) + 1

AcceptedTransaction == pendingTransactions'[Len(pendingTransactions')]

\* the ledger right before and right after the k-th transaction of the
\* appended block is applied
LedgerBefore(k) ==
  LedgerAfter(Ledger(accounts, validators), AppendedBlock.transactions, k - 1,
              AppendedBlock.header.index, now')

LedgerBehind(k) ==
  LedgerAfter(Ledger(accounts, validators), AppendedBlock.transactions, k,
              AppendedBlock.header.index, now')

BalanceOf(accs, a) == IF a \in DOMAIN accs THEN accs[a].balance ELSE 0

StakeOf(accs, a) == IF a \in DOMAIN accs THEN accs[a].stake ELSE 0

NonceOf(accs, a) == IF a \in DOMAIN accs THEN accs[a].nonce ELSE 0

RECURSIVE SumOver(_, _)
SumOver(f, S) ==
  IF S = {} THEN 0
  ELSE LET a == CHOOSE x \in S : TRUE IN f[a] + SumOver(f, S \ {a})

TotalBalance(accs) == SumOver([a \in DOMAIN accs |-> accs[a].balance], DOMAIN accs)

TotalStake(accs) == SumOver([a \in DOMAIN accs |-> accs[a].stake], DOMAIN accs)

\* the transactions of the chain, as (block position, transaction position) pairs
ChainPositions ==
  {<<i, k>> \in (1..Len(chain)) \X (1..MaxPool) : k <= Len(chain[i].transactions)}

TxAt(pos) == chain[pos[1]].transactions[pos[2]]

\* the fees of the transactions applied so far, which no account received
FeesBurned == SumOver([pos \in ChainPositions |-> TxAt(pos).fee], ChainPositions)

\* ---------------------------------------------------------------- C1
\* C1: chain[0] is the genesis block (index 0, previous hash of zeros, validator
\* AURUM_GENESIS) and every later block has the index of its position and the
\* hash of the header before it as previous hash.
C1_ChainLinked ==
  /\ chain[1].header.index = 0
  /\ chain[1].header.previousHash = ZeroHash
  /\ chain[1].header.validator = GENESIS_VALIDATOR
  /\ \A i \in 1..(Len(chain) - 1) :
       /\ chain[i + 1].header.index = i
       /\ chain[i + 1].header.previousHash = Sha256(chain[i].header)

C1_Witness ==
  /\ Len(chain) > 2
  /\ chain[Len(chain)].transactions # <<>>

\* ---------------------------------------------------------------- C2
\* C2: in every appended block, each Transfer, Stake or Unstake transaction has
\* the nonce of its sender's account right before it is applied, and the
\* account's nonce is one greater right after.
C2_NonceInSequence ==
  [][BlockAppended =>
       \A k \in 1..Len(AppendedBlock.transactions) :
         LET tx == AppendedBlock.transactions[k]
         IN tx.type \in {REGULAR, STAKE, UNSTAKE} =>
              /\ tx.nonce = NonceOf(LedgerBefore(k).accounts, tx.from)
              /\ NonceOf(LedgerBehind(k).accounts, tx.from) =
                   NonceOf(LedgerBefore(k).accounts, tx.from) + 1]_vars

\* ---------------------------------------------------------------- C3
\* C3: every account has a balance and a stake that are not negative.
C3_NonNegative ==
  \A a \in DOMAIN accounts : accounts[a].balance >= 0 /\ accounts[a].stake >= 0

\* ---------------------------------------------------------------- C4
\* what applying a Transfer does to the ledger
C4_TransferEffect(before, behind, tx) ==
  /\ BalanceOf(behind.accounts, tx.from) =
       IF tx.from = tx.to
       THEN BalanceOf(before.accounts, tx.from) - tx.fee
       ELSE BalanceOf(before.accounts, tx.from) - (tx.amount + tx.fee)
  /\ tx.to # tx.from =>
       BalanceOf(behind.accounts, tx.to) = BalanceOf(before.accounts, tx.to) + tx.amount
  /\ TotalBalance(behind.accounts) = TotalBalance(before.accounts) - tx.fee
  /\ DOMAIN behind.accounts = (DOMAIN before.accounts) \cup {tx.from, tx.to}
  /\ \A a \in DOMAIN behind.accounts :
       /\ a \notin {tx.from, tx.to} => behind.accounts[a] = before.accounts[a]
       /\ StakeOf(behind.accounts, a) = StakeOf(before.accounts, a)
  /\ behind.validators = before.validators

\* C4: a Transfer is accepted, into the pool or within a block, only when the
\* sender's balance in the ledger it is validated against covers amount + fee;
\* applying it takes amount + fee from the sender and gives amount to the
\* recipient (the fee only, when both are one address), the fee goes to no
\* account, and every other balance, every stake and the validators stay.
C4_Transfer ==
  [][/\ (TransactionAccepted /\ AcceptedTransaction.type = REGULAR) =>
          BalanceOf(accounts, AcceptedTransaction.from) >=
            AcceptedTransaction.amount + AcceptedTransaction.fee
     /\ BlockAppended =>
          /\ LedgerBehind(Len(AppendedBlock.transactions)).accounts = accounts'
          /\ \A k \in 1..Len(AppendedBlock.transactions) :
               LET tx == AppendedBlock.transactions[k]
               IN tx.type = REGULAR =>
                    /\ tx.from \in DOMAIN accounts
                    /\ accounts[tx.from].balance >= tx.amount + tx.fee
                    /\ C4_TransferEffect(LedgerBefore(k), LedgerBehind(k), tx)]_vars

C4_Witness ==
  \E pos \in ChainPositions, other \in ChainPositions :
    /\ TxAt(pos).type = REGULAR /\ TxAt(pos).from = TxAt(pos).to
    /\ TxAt(other).type = REGULAR /\ TxAt(other).from # TxAt(other).to


\* ---------------------------------------------------------------- C5
\* the checks a Stake passes, and what applying it does to the ledger
C5_StakeAccepted(accs, tx) ==
  /\ tx.from \in DOMAIN accs
  /\ accs[tx.from].balance >= tx.amount + tx.fee
  /\ tx.amount >= minStake

C5_StakeEffect(before, behind, tx) ==
  /\ BalanceOf(behind.accounts, tx.from) =
       BalanceOf(before.accounts, tx.from) - (tx.amount + tx.fee)
  /\ StakeOf(behind.accounts, tx.from) = StakeOf(before.accounts, tx.from) + tx.amount
  /\ HasValidator(behind.validators, tx.from)
  /\ getValidator(behind.validators, tx.from).isActive
  /\ getValidator(behind.validators, tx.from).stake =
       IF HasValidator(before.validators, tx.from)
       THEN getValidator(before.validators, tx.from).stake + tx.amount
       ELSE tx.amount

C6_UnstakeAccepted(accs, tx) ==
  /\ tx.from \in DOMAIN accs
  /\ accs[tx.from].stake >= tx.amount
  /\ accs[tx.from].balance >= tx.fee

C6_UnstakeEffect(before, behind, tx) ==
  /\ BalanceOf(behind.accounts, tx.from) =
       BalanceOf(before.accounts, tx.from) + (tx.amount - tx.fee)
  /\ StakeOf(behind.accounts, tx.from) = StakeOf(before.accounts, tx.from) - tx.amount
  /\ HasValidator(before.validators, tx.from) =>
       /\ HasValidator(behind.validators, tx.from)
       /\ getValidator(behind.validators, tx.from).stake =
            getValidator(before.validators, tx.from).stake - tx.amount
       /\ getValidator(behind.validators, tx.from).stake < minStake =>
            ~getValidator(behind.validators, tx.from).isActive

\* C6: an Unstake transaction is accepted only when the account's stake covers
\* amount and the balance covers the fee; applying it adds amount - fee to the
\* balance, takes amount from the account's stake and from the validator's
\* stake, and leaves the validator inactive when what remains of its stake is
\* below minStake.
C6_Unstake ==
  [][/\ (TransactionAccepted /\ AcceptedTransaction.type = UNSTAKE) =>
          C6_UnstakeAccepted(accounts, AcceptedTransaction)
     /\ BlockAppended =>
          /\ LedgerBehind(Len(AppendedBlock.transactions)).accounts = accounts'
          /\ \A k \in 1..Len(AppendedBlock.transactions) :
               LET tx == AppendedBlock.transactions[k]
               IN tx.type = UNSTAKE =>
                    /\ C6_UnstakeAccepted(accounts, tx)
                    /\ C6_UnstakeEffect(LedgerBefore(k), LedgerBehind(k), tx)]_vars

\* an unstake is on the chain and has left a validator inactive
C6_Witness ==
  /\ \E pos \in ChainPositions : TxAt(pos).type = UNSTAKE /\ TxAt(pos).amount > 0
  /\ \E i \in 1..Len(validators) :
       ~validators[i].isActive /\ validators[i].stake < minStake

\* ---------------------------------------------------------------- C7
\* C7: every validator record is active exactly when its stake is at least
\* minStake.
C7_ActiveIffStaked ==
  \A i \in 1..Len(validators) :
    validators[i].isActive <=> validators[i].stake >= minStake

\* ---------------------------------------------------------------- C8
\* the positions of the Reward transactions of a block
C8_RewardIndexes(block) ==
  {k \in 1..Len(block.transactions) : block.transactions[k].type = REWARD}

\* C8: every block produced by createBlock contains exactly one Reward
\* transaction, to the block's proposer and of amount blockReward, so that the
\* proposer's balance has grown by blockReward once the block is appended
\* (apart from what the proposer's own transactions in the block move).
C8_RewardInBlock ==
  [][BlockCreated =>
       LET block == AppendedBlock
           proposer == block.header.validator
           rewards == C8_RewardIndexes(block)
       IN /\ Cardinality(rewards) = 1
          /\ \A k \in rewards :
               /\ block.transactions[k].to = proposer
               /\ block.transactions[k].amount = blockReward
          /\ (\A k \in 1..Len(block.transactions) :
                k \notin rewards =>
                  proposer \notin {block.transactions[k].from, block.transactions[k].to})
               => BalanceOf(accounts', proposer) =
                    BalanceOf(accounts, proposer) + blockReward]_vars

\* ---------------------------------------------------------------- C9
\* the coins in the accounts and the coins burned as fees
TotalSupply == TotalBalance(accounts) + TotalStake(accounts) + FeesBurned

\* C9: the total supply, the sum over the accounts of balance + stake plus the
\* fees burned so far, is initialSupply plus blockReward for every block after
\* the genesis block.
C9_SupplyFormula ==
  TotalSupply = initialSupply + (Len(chain) - 1) * blockReward

\* ---------------------------------------------------------------- C10
\* the signature is the one the key of the sender address makes
SignedBySender(tx) == tx.signature = tx.from

\* C10: no transaction other than a Reward is in the pool or on the chain
\* unless its signature was made by the key of its sender address.
C10_OnlySenderSigned ==
  /\ \A i \in 1..Len(pendingTransactions) :
       pendingTransactions[i].type # REWARD => SignedBySender(pendingTransactions[i])
  /\ \A pos \in ChainPositions :
       TxAt(pos).type # REWARD => SignedBySender(TxAt(pos))

\* ---------------------------------------------------------------- C11
\* C11: a call of addTransaction or addBlock that rejects returns false, emits
\* no event, and leaves the chain, the pool, the account map and the validator
\* map as they were, so the rejected item is kept nowhere.
C11_RejectionChangesNothing ==
  [][(/\ outcome'.call \in {"addTransaction", "addBlock"}
      /\ outcome'.returned = "false")
     => /\ UNCHANGED <<chain, pendingTransactions, accounts, validators>>
        /\ outcome'.emitted = "none"]_vars

\* a block was rejected by a ledger that holds blocks and pool entries
C11_Witness ==
  /\ outcome = Returned("addBlock", "false", "none")
  /\ Len(chain) > 1
  /\ pendingTransactions # <<>>

\* ---------------------------------------------------------------- C12
\* the sender of tx has an account in accs whose nonce is the nonce of tx
NonceMatches(accs, tx) ==
  /\ HasAccount(accs, tx.from)
  /\ tx.nonce = accs[tx.from].nonce

\* C12: addTransaction accepts no transaction, and addBlock no block that
\* holds a transaction, that is not a Reward and whose sender has no account
\* or whose nonce differs from the nonce the sender's account has at the call
\* (a replay carries the account's nonce less one).
C12_NonceChecked ==
  [][/\ (TransactionAccepted /\ AcceptedTransaction.type # REWARD)
          => NonceMatches(accounts, AcceptedTransaction)
     /\ BlockAppended
          => \A k \in 1..Len(AppendedBlock.transactions) :
               AppendedBlock.transactions[k].type # REWARD
                 => NonceMatches(accounts, AppendedBlock.transactions[k])]_vars

\* the pool holds a transaction that carries the nonce before the one of its
\* sender's account: a peer that puts it in a block replays it
C12_Witness ==
  \E i \in 1..Len(pendingTransactions) :
    /\ pendingTransactions[i].type # REWARD
    /\ HasAccount(accounts, pendingTransactions[i].from)
    /\ pendingTransactions[i].nonce = accounts[pendingTransactions[i].from].nonce - 1
    /\ getLatestBlock.header.index < MaxHeight

\* ---------------------------------------------------------------- C13
\* C13: every block of the chain, the genesis block too, carries in its header
\* the merkle root calculateMerkleRoot gives for its transactions.
C13_MerkleRootMatches ==
  \A i \in 1..Len(chain) :
    chain[i].header.merkleRoot = calculateMerkleRoot(chain[i].transactions)

\* ---------------------------------------------------------------- C14
\* the leaf hashes of a list, and the root as the design states it: the nodes
\* of a level are hashed in adjacent pairs, the last node of an odd level with
\* itself, until one node is left
LeafHashes(list) == [i \in 1..Len(list) |-> calculateTransactionHash(list[i])]

RECURSIVE ReferenceRoot(_)
ReferenceRoot(nodes) ==
  IF Len(nodes) = 1 THEN nodes[1]
  ELSE ReferenceRoot(
         [j \in 1..((Len(nodes) + 1) \div 2) |->
            Sha256(<<nodes[2 * j - 1],
                     nodes[IF 2 * j <= Len(nodes) THEN 2 * j ELSE 2 * j - 1]>>)])

\* C14: calculateMerkleRoot gives 64 zeros for the empty list, the leaf hash
\* for a list of one, and otherwise the root of the pairwise hashing in which
\* the last node of an odd level is paired with itself.
C14_MerkleRoot ==
  outcome.call = "calculateMerkleRoot" =>
    /\ Len(argument) = 0 => outcome.returned = ZeroHash
    /\ Len(argument) = 1 => outcome.returned = calculateTransactionHash(argument[1])
    /\ Len(argument) > 0 => outcome.returned = ReferenceRoot(LeafHashes(argument))

\* the root of five transactions: three parents, then two, then the root
C14_Witness ==
  /\ outcome.call = "calculateMerkleRoot"
  /\ Len(argument) = MaxMerkleLen

\* ---------------------------------------------------------------- C15
\* the stake of the first i active validators
CumulativeStake(active, i) == SumOver([j \in 1..i |-> active[j].stake], 1..i)

\* the drawn point lies at or below the stake of the first i active validators
Reaches(active, i, draw) ==
  CumulativeStake(active, i) * RandomScale >= draw * CumulativeStake(active, Len(active))

\* C15: selectValidator throws when no validator is active; otherwise it
\* returns the first active validator whose cumulative stake reaches the drawn
\* point, and the only active validator when there is just one.
C15_SelectValidator ==
  outcome.call = "selectValidator" =>
    LET active == ActiveValidators(validators)
    IN /\ Len(active) = 0 <=> outcome.returned = "throws"
       /\ Len(active) > 0 =>
            \E i \in 1..Len(active) :
              /\ outcome.returned = active[i].address
              /\ active[i].isActive
              /\ Reaches(active, i, argument)
              /\ \A j \in 1..(i - 1) : ~Reaches(active, j, argument)
       /\ Len(active) = 1 => outcome.returned = active[1].address

\* an election between two active validators that the second one won, held
\* while a third record is inactive or none is
C15_Witness ==
  /\ outcome.call = "selectValidator"
  /\ Len(ActiveValidators(validators)) = 2
  /\ outcome.returned = ActiveValidators(validators)[2].address

\* ---------------------------------------------------------------- C16
\* C16: two calls of selectValidator on the same chain and the same validator
\* map, on one node or on two, return the same address.
C16_ElectionDeterministic ==
  [][(/\ outcome.call = "selectValidator"
      /\ outcome'.call = "selectValidator"
      /\ UNCHANGED ledgerVars)
     => outcome'.returned = outcome.returned]_vars

\* ---------------------------------------------------------------- C17
\* C17: when the second node held the ledger of the first node before the
\* first node appended a block (one it produced or one it received), then
\* after the block is delivered the two nodes hold the same chain, accounts,
\* validator stakes and activity flags, and pool.
C17_SamePostState ==
  [][(/\ inFlight # <<>>
      /\ inFlight' = <<>>
      /\ inFlight[1].synced)
     => SameLedger']_vars

\* ---------------------------------------------------------------- C18
\* C18: the proposer of every block addBlock appends is, when the block is
\* appended, a registered validator that is active and holds at least minStake.
C18_ProposerEligible ==
  [][BlockAppended =>
       /\ HasValidator(validators, AppendedBlock.header.validator)
       /\ getValidator(validators, AppendedBlock.header.validator).isActive
       /\ getValidator(validators, AppendedBlock.header.validator).stake >= minStake]_vars

\* ---------------------------------------------------------------- C19
\* membership in a list of transactions
Holds(list, tx) == \E k \in 1..Len(list) : list[k] = tx

\* C19: a node that produced a block Y on a parent, and was then handed a
\* block X that the second node appended on the same parent and a block that
\* extends X, has its tip on the second node's branch, the accounts and the
\* validator stakes and flags of that branch, and in its pool every
\* transaction the branch left out.
C19_ForkResolved ==
  (/\ Len(argument) = 2
   /\ inFlight = <<>>
   /\ argument[2].header.previousHash = calculateBlockHash(argument[1]))
  => /\ getLatestBlock = argument[2]
     /\ accounts = peer.accounts
     /\ Len(validators) = Len(peer.validators)
     /\ \A i \in 1..Len(validators) :
          /\ validators[i].stake = peer.validators[i].stake
          /\ validators[i].isActive = peer.validators[i].isActive
     /\ \A k \in 1..Len(peer.pendingTransactions) :
          Holds(pendingTransactions, peer.pendingTransactions[k])

\* ---------------------------------------------------------------- C20
\* C20: in every state of the ledger, the block createBlock assembles for a
\* registered validator passes isValidBlock, so the call appends it: no pool
\* entry that has gone stale makes createBlock throw.
C20_AssemblyValid ==
  \A validatorAddress \in Addr :
    HasValidator(validators, validatorAddress)
      => isValidBlock(getLatestBlock, validators, accounts,
                      NewBlock(validatorAddress, validatorAddress, 0, NextTick))

\* ---------------------------------------------------------------- C21
\* tx may stand before other in a block: its fee is higher, or the fees are
\* equal and it is earlier, or those are equal too and its id is not greater
MayPrecede(tx, other) ==
  \/ tx.fee > other.fee
  \/ /\ tx.fee = other.fee
     /\ \/ tx.timestamp < other.timestamp
        \/ /\ tx.timestamp = other.timestamp
           /\ tx.id <= other.id

\* C21: the transactions createBlock puts in a block are at most 100, stand in
\* order of descending fee, earlier timestamp first among equal fees and
\* smaller id first among equal timestamps, and no pool entry left out has a
\* higher fee than an entry of the block.
C21_SelectionOrder ==
  [][BlockCreated =>
       LET selected == AppendedBlock.transactions
       IN /\ Len(selected) <= MaxBlockTransactions
          /\ \A i \in 1..Len(selected) : Holds(pendingTransactions, selected[i])
          /\ \A i, j \in 1..Len(selected) :
               i < j => MayPrecede(selected[i], selected[j])
          /\ \A k \in 1..Len(pendingTransactions) :
               ~Holds(selected, pendingTransactions[k])
                 => \A i \in 1..Len(selected) :
                      pendingTransactions[k].fee <= selected[i].fee]_vars

\* ---------------------------------------------------------------- C22
\* no entry of the pool carries an id of the block
NoBlockIdInPool(pool, block) ==
  \A k \in 1..Len(pool) : pool[k].id \notin TxIds(block.transactions)

\* a later block can still take tx: isValidBlock wants tx.nonce equal to the
\* sender's account nonce, and no operation lowers an account nonce
CanStillBeIncluded(accs, tx) ==
  \/ tx.type = REWARD /\ tx.from = NETWORK
  \/ tx.nonce >= NonceOf(accs, tx.from)

\* C22: every transaction accepted into the pool leaves it while blocks keep
\* being appended, included in a block or purged: right after a block is
\* appended the pool holds no transaction whose id is in that block, and none
\* that no later block can include, which would stay in the pool for good.
C22_PoolDrains ==
  [][BlockAppended =>
       /\ NoBlockIdInPool(pendingTransactions', AppendedBlock)
       /\ \A k \in 1..Len(pendingTransactions') :
            CanStillBeIncluded(accounts', pendingTransactions'[k])]_vars

\* the half of C22 about the ids of the appended block alone
C22_BlockIdsLeave ==
  [][BlockAppended => NoBlockIdInPool(pendingTransactions', AppendedBlock)]_vars

\* ---------------------------------------------------------------- C23
\* a step that handled a NewTransaction or NewBlock message, and the item
ItemReceived ==
  /\ Len(argument') = 1
  /\ argument'[1].type \in {NEW_TRANSACTION, NEW_BLOCK}

ReceivedItem == argument'[1].data

\* the node holds the item already: a pool entry or a block of its chain
AlreadyHeld(type, item) ==
  IF type = NEW_TRANSACTION
  THEN \E k \in 1..Len(pendingTransactions) : pendingTransactions[k].id = item.id
  ELSE \E i \in 1..Len(chain) : chain[i] = item

\* C23: a transaction or block that is delivered to a node which holds it
\* already is not inserted again and not sent on, and the pool never holds
\* two entries with the same id; so the messages one item causes stop.
C23_NoGossipLoop ==
  [][ItemReceived =>
       /\ AlreadyHeld(argument'[1].type, ReceivedItem)
            => /\ sent' = <<>>
               /\ UNCHANGED <<chain, pendingTransactions>>
       /\ \A k, m \in 1..Len(pendingTransactions') :
            pendingTransactions'[k].id = pendingTransactions'[m].id => k = m]_vars

\* ---------------------------------------------------------------- C24
\* the number of copies of the received message that were sent on a session
\* in this step, and the number of entries of the peer map for the session
CopiesSent(socket) ==
  Cardinality({k \in 1..Len(sent') :
                 /\ sent'[k].socket = socket
                 /\ sent'[k].type = argument'[1].type
                 /\ sent'[k].data = ReceivedItem})

EntriesFor(socket) == Cardinality({i \in 1..Len(peers) : peers[i].socket = socket})

\* the ledger took the received item: the chain or the pool changed
ItemAccepted == chain' # chain \/ pendingTransactions' # pendingTransactions

\* C24: a block or transaction received from a peer is sent on as NewBlock or
\* NewTransaction exactly when the ledger accepted it, and then once for
\* every peer connected at that moment; nothing else is sent, and nothing at
\* all for a rejected item.
C24_SentOnIffAccepted ==
  [][ItemReceived =>
       /\ ItemAccepted <=> outcome'.returned = "true"
       /\ ~ItemAccepted => sent' = <<>>
       /\ ItemAccepted =>
            /\ \A socket \in 1..Len(sockets) :
                 CopiesSent(socket) =
                   IF sockets[socket] = "open" THEN EntriesFor(socket) ELSE 0
            /\ \A k \in 1..Len(sent') :
                 /\ sent'[k].type = argument'[1].type
                 /\ sent'[k].data = ReceivedItem]_vars

\* an accepted transaction went out to two connected peers, and a rejected one to none
C24_Witness ==
  /\ Len(peers) = 2
  /\ Len(argument) = 1
  /\ argument[1].type = NEW_TRANSACTION
  /\ outcome.returned = "true"
  /\ Len(sent) = 2
  /\ sent[1].socket # sent[2].socket

\* ---------------------------------------------------------------- C25
\* a step that handled a handshake of another network
MismatchArrived ==
  /\ Len(argument') = 1
  /\ argument'[1].type = HANDSHAKE
  /\ argument'[1].data.networkId # networkId

\* C25: a handshake whose networkId is not the node's own is answered with a
\* Disconnect on its session, the session is closed, the peer table stays as
\* it was and no peer:connected is emitted; and every entry of the peer table
\* was made by a handshake that carried the node's own networkId.
C25_MismatchRefused ==
  /\ [](\A i \in 1..Len(peers) : peers[i].networkId = networkId)
  /\ [][MismatchArrived =>
          /\ sent' = <<Message(argument'[1].socket, DISCONNECT, "Network ID mismatch")>>
          /\ sockets[argument'[1].socket] = "open"
          /\ sockets'[argument'[1].socket] = "closing"
          /\ peers' = peers
          /\ outcome'.emitted # "peer:connected"]_vars

\* a handshake of another network was refused while a peer of the node's own
\* network is in the table
C25_Witness ==
  /\ Len(argument) = 1
  /\ argument[1].type = HANDSHAKE
  /\ argument[1].data.networkId = "other"
  /\ Len(sent) = 1
  /\ sent[1].type = DISCONNECT
  /\ sockets[argument[1].socket] = "closing"
  /\ Len(peers) = 1

\* ---------------------------------------------------------------- C26
\* C26: the peer table never holds more than maxPeers entries.
C26_AtMostMaxPeers == Len(peers) <= maxPeers

\* ---------------------------------------------------------------- C27
\* a sync is waiting for the blocks of a peer whose chain is longer
SyncRuns ==
  /\ tasks.sync = "requested"
  /\ Len(peer.chain) > Len(chain)

\* C27: when a sync runs at a node that is connected to a peer with a valid
\* longer chain, the peer answers GetBlocks with its blocks from the node's
\* tip on, the node applies them, and the node's tip reaches the height of
\* the peer's tip.
C27_SyncCatchesUp == SyncRuns ~> (Len(chain) >= Len(peer.chain))

\* ---------------------------------------------------------------- C28
\* a tick of the validator timer on which tryValidateBlock appended a block
TickProduced ==
  /\ outcome'.call = "tryValidateBlock"
  /\ outcome'.emitted = "blockAdded"

\* C28: the validator timer appends a block on a tick only if the node has a
\* validator address, selectValidator returned that address, and at least
\* blockTime has passed since the timestamp of the tip
C28_TickWaitsBlockTime ==
  [][TickProduced =>
       /\ nodeValidatorAddress # ""
       /\ outcome'.returned = nodeValidatorAddress
       /\ now' - getLatestBlock.header.timestamp >= blockTime]_vars

\* ---------------------------------------------------------------- C29
\* the step is a call of NodeService.stop, up to its return or its first await
StopCalled == outcome'.call = "stop"

\* the step is what stop does once its snapshot write settled
P2PStopped == outcome'.call = "p2pService.stop"

\* C29: stop on a running node clears the validator timer and starts the
\* write of the current ledger state, leaving the sessions alone; only when
\* that write has settled does it send Disconnect on every open session of
\* the peer map, close the sessions of the map, empty the map and mark the
\* node not running; stop on a node that is not running changes nothing
C29_StopInOrder ==
  [][/\ (StopCalled /\ isRunning) =>
          /\ ~validatorInterval'
          /\ writes' = Append(writes, [state |-> getState, position |-> 0])
          /\ tasks'.stop = Append(tasks.stop, Len(writes'))
          /\ sent' = <<>>
          /\ UNCHANGED <<ledgerVars, peers, sockets, isRunning, stateFile, wallets>>
     /\ P2PStopped =>
          /\ \E call \in 1..Len(tasks.stop) :
               /\ Settled(tasks.stop[call])
               /\ Len(tasks'.stop) = Len(tasks.stop) - 1
          /\ \A i \in 1..Len(peers) :
               /\ sockets[peers[i].socket] = "open" =>
                    \E m \in 1..Len(sent') :
                      sent'[m] = Message(peers[i].socket, DISCONNECT, "Node shutting down")
               /\ sockets'[peers[i].socket] \in {"closing", "closed"}
          /\ peers' = <<>>
          /\ ~isRunning'
          /\ UNCHANGED <<ledgerVars, storageVars>>
     /\ (StopCalled /\ ~isRunning) =>
          /\ sent' = <<>>
          /\ UNCHANGED <<ledgerVars, peers, sockets, nodeVars, storageVars>>]_vars

\* stop has returned on a node whose timer was set and that had a peer on an
\* open session
C29_Witness ==
  /\ outcome.call = "p2pService.stop"
  /\ sent # <<>>
  /\ nodeValidatorAddress # ""
  /\ ~validatorInterval
  /\ ~isRunning
  /\ peers = <<>>

\* ---------------------------------------------------------------- C30
\* C30: at every moment the snapshot file is absent or holds the whole
\* document of one ledger state that was passed to saveBlockchainState
C30_SnapshotWhole ==
  \/ ~stateFile.exists
  \/ \E i \in 1..Len(writes) : stateFile.content = Document(writes[i].state)

\* the file parses, and its pieces come from the documents of two different
\* states: loadBlockchainState restores a ledger no node ever had
C30_MixedDocument ==
  /\ stateFile.exists
  /\ Parses(stateFile.content)
  /\ \E k, l \in 1..DocumentParts : stateFile.content[k].json # stateFile.content[l].json

\* ---------------------------------------------------------------- C31
\* a snapshot file that one whole write of the ledger state left
SnapshotOf(state) == [exists |-> TRUE, content |-> Document(state)]

\* saving getState(), loading and restoring gives the ledger back
C31_RoundTrip == restoredFrom(SnapshotOf(getState), NewLedger) = getState

\* the step starts the node that was killed in the step before
Restarted ==
  /\ outcome.call = "kill"
  /\ outcome'.call = "start"

\* C31: a node that is killed with its tip at height h and started again
\* has its tip at height h
C31_RestartKeepsTip ==
  [][Restarted => getLatestBlock.header.index' = outcome.returned]_vars

\* ---------------------------------------------------------------- C32
\* the step is a call of NodeService.createTransaction
CreateCalled == outcome'.call = "createTransaction"

\* C32: a transaction the wallet path builds for a sender that has an account
\* and the balance for amount and fee carries the account's current nonce,
\* and addTransaction accepts it
C32_WalletNonceCurrent ==
  [][CreateCalled =>
       LET transaction == argument'[1]
       IN (/\ HasAccount(accounts, transaction.from)
           /\ accounts[transaction.from].balance >= transaction.amount + transaction.fee)
          => /\ transaction.nonce = accounts[transaction.from].nonce
             /\ outcome'.returned = "transaction"]_vars

\* ---------------------------------------------------------------- C33
\* the step is a call of loadWallet
LoadCalled == outcome'.call = "loadWallet"

\* the password the wallet file of an address was saved with
SavedWith(address) == wallets[address].encryptedPrivateKey.stream

\* C33: loadWallet returns the stored private key when it is given the
\* password the wallet was saved with, and throws for any other password
C33_WrongPasswordFails ==
  [][LoadCalled =>
       LET address == argument'[1]
           password == argument'[2]
       IN address \in DOMAIN wallets =>
            outcome'.returned = IF password = SavedWith(address)
                                THEN wallets[address].encryptedPrivateKey.plain
                                ELSE "throws"]_vars

\* ---------------------------------------------------------------- C34
\* the Reward transactions the ledger holds, in the pool or in a block
HeldRewards ==
  {pendingTransactions[k] : k \in {j \in 1..Len(pendingTransactions) :
                                     pendingTransactions[j].type = REWARD}}
  \cup {TxAt(pos) : pos \in {q \in ChainPositions : TxAt(q).type = REWARD}}

\* C34: every Reward transaction the ledger accepted, into the pool or in a
\* block, is the one addValidatorReward made for a block of the chain: it
\* pays blockReward to that block's proposer
C34_RewardsOnlyMinted ==
  \A tx \in HeldRewards :
    /\ tx.amount = blockReward
    /\ \E i \in 2..Len(chain) :
         tx = RewardTransaction(chain[i].header.validator, chain[i].header.timestamp)

\* ---------------------------------------------------------------- C35
\* the step is a call of registerAsValidator that returned true
Registered ==
  /\ outcome'.call = "registerAsValidator"
  /\ outcome'.returned = "true"

\* C35: when registerAsValidator is called for an address whose validator
\* record holds the stake of its account, as a Stake transaction leaves it,
\* the record holds the stake of the account afterwards too: the weight of
\* the validator in the election does not change
C35_RegistrationKeepsWeight ==
  [][Registered =>
       LET address == nodeValidatorAddress'
       IN (/\ HasValidator(validators, address)
           /\ getValidator(validators, address).stake = getAddressStake(accounts, address))
          => getValidator(validators', address).stake = getAddressStake(accounts', address)]_vars

\* ---------------------------------------------------------------- C36
\* the step is a call of registerAsValidator for an address that has a
\* wallet file, with a password the file was not saved with
WrongPasswordGiven ==
  /\ outcome'.call = "registerAsValidator"
  /\ argument'[1] \in DOMAIN wallets
  /\ argument'[2] # SavedWith(argument'[1])

\* C36: registerAsValidator with a password that is not the wallet's returns
\* false and leaves the validators, the node's validator address and the
\* timer as they were, and the timer signs its blocks with the private key
\* the wallet file stores
C36_WrongPasswordRegistersNothing ==
  [][/\ WrongPasswordGiven =>
          /\ outcome'.returned = "false"
          /\ UNCHANGED <<validators, nodeValidatorAddress, validatorInterval, tasks>>
     /\ TickProduced =>
          getLatestBlock'.signature
            = wallets[nodeValidatorAddress].encryptedPrivateKey.plain]_vars

\* ---------------------------------------------------------------- C37
\* a Disconnect message of one session took the entry of a peer that is
\* connected on another session
DisconnectArrived ==
  /\ outcome'.call = "handlePeerDisconnect"
  /\ Len(argument') = 1

\* C37: a Disconnect message removes from the peer table only the peer of the
\* session it arrived on, and announces peer:disconnected only for that peer:
\* every entry that the step removes holds the socket the message came in on
C37_DisconnectOwnSessionOnly ==
  [][DisconnectArrived =>
       \A i \in 1..Len(peers) :
          ~HasPeer(peers', peers[i].id) => peers[i].socket = argument'[1].socket]_vars

\* ---------------------------------------------------------------- C38
\* C38: the node produces blocks only while it is running: every tick of the
\* validator timer on which tryValidateBlock appends a block happens on a node
\* whose start() has completed and whose stop() has not been called, also when
\* registerAsValidator was called on a node that is not running
C38_ProducesOnlyWhileRunning == [][TickProduced => isRunning /\ isRunning']_vars

\* ---------------------------------------------------------------- C39
\* syncWithNetwork has emitted SYNC_STARTED
SyncStarted == outcome.emitted = "sync_started"

\* syncWithNetwork has emitted the event that ends a run
SyncEnded == outcome.emitted \in {"sync_completed", "error"}

\* C39: every sync run terminates: each SYNC_STARTED event is eventually
\* followed by a SYNC_COMPLETED or an ERROR event, also when no peer is
\* connected or the block request times out
C39_SyncTerminates == SyncStarted ~> SyncEnded

\* the isSyncing flag is false again after a run: a run in progress ends
C39_FlagFalls == isSyncing ~> ~isSyncing

\* ---------------------------------------------------------------- C40
\* the number of levels buildMerkleTree puts above n leaves
RECURSIVE MerkleLevels(_)
MerkleLevels(n) == IF n <= 1 THEN 0 ELSE 1 + MerkleLevels((n + 1) \div 2)

\* two lists have the same root; a digest of a transaction is never the digest
\* of a pair, so the roots of trees of different height differ
SameRoot(list, other) ==
  /\ (list = <<>>) = (other = <<>>)
  /\ MerkleLevels(Len(list)) = MerkleLevels(Len(other))
  /\ calculateMerkleRoot(list) = calculateMerkleRoot(other)

\* C40: the Merkle root commits to the transaction list: with a collision-free
\* hash no list of at most MaxMerkleLen transactions other than the one
\* calculateMerkleRoot was called with has the root it returned, lists that
\* differ by a repeated last transaction included
C40_RootCommits ==
  outcome.call = "calculateMerkleRoot" =>
    \A other \in TransactionLists(MaxMerkleLen) :
      other # argument => ~SameRoot(argument, other)

====
